---- MODULE Spec2Model ----
(***************************************************************************)
(* State-machine model of the storage API's filesystem indexing and        *)
(* caching engine: the path-safe local driver (LocalDriver), the read      *)
(* cache and its invalidation, the SQLite index with its transactional     *)
(* rebuild, the search/stats queries and the reindex scheduler.            *)
(*                                                                         *)
(* Go strings are TLA+ strings; TLC evaluates Len, SubSeq and \o on them,  *)
(* so every string function below is computed character by character the   *)
(* way the Go code computes it.                                            *)
(***************************************************************************)
EXTENDS Integers, Sequences, FiniteSets, TLC

(***************************************************************************)
(* Bounds of the model.                                                    *)
(***************************************************************************)
\* longest subPath string handed to validatePath
MaxPathLen == 5

(***************************************************************************)
(* Strings.                                                                *)
(***************************************************************************)
Char(s, i) == SubSeq(s, i, i)

HasPrefix(s, p) == Len(s) >= Len(p) /\ SubSeq(s, 1, Len(p)) = p

HasSuffix(s, p) == Len(s) >= Len(p) /\ SubSeq(s, Len(s) - Len(p) + 1, Len(s)) = p

UpperLetters == "ABCDEFGHIJKLMNOPQRSTUVWXYZ"

LowerLetters == "abcdefghijklmnopqrstuvwxyz"

\* unicode.ToLower on the ASCII letters: upper-case letter -> lower-case letter
LowerTable ==
    [c \in {Char(UpperLetters, i) : i \in 1..26} |->
        Char(LowerLetters, CHOOSE i \in 1..26 : Char(UpperLetters, i) = c)]

LowerChar(c) == IF c \in DOMAIN LowerTable THEN LowerTable[c] ELSE c

RECURSIVE ToLower(_)
ToLower(s) == IF s = "" THEN "" ELSE LowerChar(Head(s)) \o ToLower(Tail(s))

\* strings.Split(s, sep) for a one-character separator
RECURSIVE SplitFrom(_, _, _)
SplitFrom(s, sep, cur) ==
    IF s = "" THEN <<cur>>
    ELSE IF Head(s) = sep THEN <<cur>> \o SplitFrom(Tail(s), sep, "")
    ELSE SplitFrom(Tail(s), sep, cur \o Head(s))

Split(s, sep) == SplitFrom(s, sep, "")

\* strings.Join(elems, sep)
RECURSIVE JoinSeq(_, _)
JoinSeq(elems, sep) ==
    IF elems = <<>> THEN ""
    ELSE IF Len(elems) = 1 THEN elems[1]
    ELSE elems[1] \o sep \o JoinSeq(Tail(elems), sep)

(***************************************************************************)
(* path/filepath on a Unix build (Separator = "/").                        *)
(***************************************************************************)
\* the element stack filepath.Clean keeps while it scans the path
RECURSIVE CleanElems(_, _, _)
CleanElems(elems, rooted, out) ==
    IF elems = <<>> THEN out
    ELSE LET e == Head(elems)
             rest == Tail(elems)
         IN  IF e = "" \/ e = "." THEN CleanElems(rest, rooted, out)
             ELSE IF e = ".."
                  THEN IF out # <<>> /\ out[Len(out)] # ".."
                       THEN CleanElems(rest, rooted, SubSeq(out, 1, Len(out) - 1))
                       ELSE IF rooted THEN CleanElems(rest, rooted, out)
                       ELSE CleanElems(rest, rooted, Append(out, ".."))
                  ELSE CleanElems(rest, rooted, Append(out, e))

Clean(path) ==
    IF path = "" THEN "."
    ELSE LET rooted == Head(path) = "/"
             out == CleanElems(Split(path, "/"), rooted, <<>>)
         IN  IF rooted THEN "/" \o JoinSeq(out, "/")
             ELSE IF out = <<>> THEN "." ELSE JoinSeq(out, "/")

\* filepath.Join(a, b): empty elements are ignored, the result is Cleaned
Join(a, b) ==
    IF a = "" /\ b = "" THEN ""
    ELSE IF a = "" THEN Clean(b)
    ELSE IF b = "" THEN Clean(a)
    ELSE Clean(a \o "/" \o b)

\* the elements of a Cleaned path
PathElems(p) == SelectSeq(Split(p, "/"), LAMBDA e : e # "" /\ e # ".")

RECURSIVE CommonLen(_, _)
CommonLen(b, t) ==
    IF b = <<>> \/ t = <<>> \/ Head(b) # Head(t) THEN 0
    ELSE 1 + CommonLen(Tail(b), Tail(t))

\* filepath.Rel(basepath, targpath): [err, rel]
Rel(basepath, targpath) ==
    LET base == Clean(basepath)
        targ == Clean(targpath)
        baseSlashed == Head(base) = "/"
        targSlashed == Head(targ) = "/"
        b == PathElems(base)
        t == PathElems(targ)
        k == CommonLen(b, t)
        up == [i \in 1..(Len(b) - k) |-> ".."]
        down == SubSeq(t, k + 1, Len(t))
    IN  IF targ = base THEN [err |-> FALSE, rel |-> "."]
        ELSE IF baseSlashed # targSlashed THEN [err |-> TRUE, rel |-> ""]
        ELSE IF k < Len(b) /\ b[k + 1] = ".." THEN [err |-> TRUE, rel |-> ""]
        ELSE [err |-> FALSE, rel |-> JoinSeq(up \o down, "/")]

\* filepath.Ext(name): the suffix from the last dot of the last element; the
\* scan runs from the end of the name down to the first "/" or "." it meets
RECURSIVE ExtFrom(_, _)
ExtFrom(name, i) ==
    IF i < 1 \/ Char(name, i) = "/" THEN ""
    ELSE IF Char(name, i) = "." THEN SubSeq(name, i, Len(name))
    ELSE ExtFrom(name, i - 1)

Ext(name) == ExtFrom(name, Len(name))

(***************************************************************************)
(* LocalDriver: the mount table and path validation.                       *)
(***************************************************************************)
\* LocalDriver.Mounts: storage name -> root path
Mounts == [ssd |-> "/m/s", ssd2 |-> "/m/s2"]

MountNames == DOMAIN Mounts

\* the storage names requests are issued with
ReqNames == {"ssd", "SSD", "ssd2", "usb"}

\* getStorageRoot: case-insensitive lookup of the mount
StorageKnown(storageName) ==
    \E name \in MountNames : ToLower(name) = ToLower(storageName)

MountOf(storageName) ==
    CHOOSE name \in MountNames : ToLower(name) = ToLower(storageName)

getStorageRoot(storageName) ==
    IF StorageKnown(storageName)
    THEN [err |-> FALSE, path |-> Clean(Mounts[MountOf(storageName)])]
    ELSE [err |-> TRUE, path |-> ""]

\* validatePath with a string-prefix containment test instead of filepath.Rel
validatePathByStringPrefix(storageName, subPath) ==
    LET root == getStorageRoot(storageName)
        cleanPath == Clean(Join(root.path, subPath))
    IN  IF root.err THEN [err |-> TRUE, path |-> ""]
        ELSE IF ~HasPrefix(cleanPath, root.path) THEN [err |-> TRUE, path |-> ""]
        ELSE [err |-> FALSE, path |-> cleanPath]

validatePath(storageName, subPath) ==
    LET root == getStorageRoot(storageName)
        fullPath == Join(root.path, subPath)
        cleanPath == Clean(fullPath)
        r == Rel(root.path, cleanPath)
    IN  IF root.err THEN [err |-> TRUE, path |-> ""]
        ELSE IF r.err \/ HasPrefix(r.rel, "..") THEN [err |-> TRUE, path |-> ""]
        ELSE [err |-> FALSE, path |-> cleanPath]

(***************************************************************************)
(* Hidden and project-junk classification.                                 *)
(***************************************************************************)
\* the alternatives of hiddenFileRegex's second branch, lower-cased: the
\* branch is (?i)(...)$, anchored at the end of the name only
HiddenWords ==
    {"system volume information", "recycle", "recycler", "desktop.ini",
     "thumbs.db", "node_modules", "vendor", "__pycache__", ".git", ".idea",
     ".vscode", ".dart_tool", ".pub-cache", ".svn", "dist", "build", "target",
     "obj", "bin", ".cache", ".config", ".local", ".mozilla", ".rustup",
     ".cargo", ".npm"}

hiddenFileRegexMatch(name) ==
    \/ (name # "" /\ Head(name) \in {".", "$", "~"})
    \/ \E lower \in {ToLower(name)} : \E w \in HiddenWords : HasSuffix(lower, w)

isHiddenFile(name) ==
    \/ (Len(name) > 0 /\ Head(name) \in {".", "$", "~"})
    \/ hiddenFileRegexMatch(name)

projectJunkExtensions ==
    {"c", "cpp", "h", "hpp", "cs", "go", "java", "js", "jsx", "ts", "tsx",
     "php", "py", "rb", "pl", "swift", "kt", "kts", "rs", "dart", "lua", "sh",
     "bat", "ps1", "cmd", "vb", "vbs", "sql", "r", "m",
     "html", "css", "scss", "less", "sass", "json", "xml", "yaml", "yml",
     "toml", "ini", "env", "lock", "mod", "sum", "map", "gitignore",
     "dockerignore",
     "class", "jar", "war", "ear", "o", "obj", "dll", "so", "dylib", "exe",
     "bin", "dat", "log", "tmp", "bak", "swp"}

isProjectJunk(name) ==
    IF name \in {"LICENSE", "README", "Makefile"} THEN TRUE
    ELSE \E ext \in {ToLower(Ext(name))} :
             IF Len(ext) > 1 THEN Tail(ext) \in projectJunkExtensions ELSE FALSE

(***************************************************************************)
(* The filesystem under a mount root.  A mount's tree is a set of entries  *)
(* [path, isDir, mtime]; path is relative to the root and Cleaned, and the *)
(* root directory itself is the entry with path ".".                       *)
(***************************************************************************)
\* filepath.Base and filepath.Dir of a Cleaned relative path
Base(p) == LET e == PathElems(p) IN IF e = <<>> THEN "." ELSE e[Len(e)]

Dir(p) ==
    LET e == PathElems(p)
    IN  IF Len(e) <= 1 THEN "." ELSE JoinSeq(SubSeq(e, 1, Len(e) - 1), "/")

\* p lies strictly below q
IsUnder(p, q) == IF q = "." THEN p # "." ELSE HasPrefix(p, q \o "/")

Exists(d, p) == \E e \in d : e.path = p

IsDirAt(d, p) == \E e \in d : e.path = p /\ e.isDir

IsFileAt(d, p) == \E e \in d : e.path = p /\ ~e.isDir

\* p and its ancestors up to the root
RECURSIVE Ancestors(_)
Ancestors(p) == IF p = "." THEN {"."} ELSE {p} \cup Ancestors(Dir(p))

Children(d, p) == {e \in d : e.path # "." /\ Dir(e.path) = p}

\* the path of a validated absolute path relative to its mount root
RelOf(storageName, fullPath) == Rel(getStorageRoot(storageName).path, fullPath).rel

\* os.MkdirAll: [err, d]
MkdirAll(d, p, t) ==
    IF \E a \in Ancestors(p) : IsFileAt(d, a) THEN [err |-> TRUE, d |-> d]
    ELSE [err |-> FALSE,
          d |-> d \cup {[path |-> a, isDir |-> TRUE, mtime |-> t] :
                          a \in {x \in Ancestors(p) : ~Exists(d, x)}}]

\* os.Create followed by the write of the stream: [err, d]
CreateFile(d, p, t) ==
    IF ~IsDirAt(d, Dir(p)) \/ IsDirAt(d, p) THEN [err |-> TRUE, d |-> d]
    ELSE [err |-> FALSE,
          d |-> {e \in d : e.path # p} \cup {[path |-> p, isDir |-> FALSE, mtime |-> t]}]

\* os.RemoveAll: [err, d]
RemoveAll(d, p) ==
    IF \E a \in Ancestors(p) \ {p} : IsFileAt(d, a) THEN [err |-> TRUE, d |-> d]
    ELSE [err |-> FALSE, d |-> {e \in d : e.path # p /\ ~IsUnder(e.path, p)}]

\* the path of an entry of the tree at old once the tree is at new
Rebase(path, old, new) ==
    IF path = old THEN new
    ELSE Join(new, SubSeq(path, Len(old) + 2, Len(path)))

\* os.Rename (rename(2)): [err, d]
RenameFS(d, old, new) ==
    IF ~Exists(d, old) THEN [err |-> TRUE, d |-> d]
    ELSE IF old = new THEN [err |-> FALSE, d |-> d]
    ELSE IF old = "." \/ new = "." \/ IsUnder(new, old) THEN [err |-> TRUE, d |-> d]
    ELSE IF ~IsDirAt(d, Dir(new)) THEN [err |-> TRUE, d |-> d]
    ELSE IF IsDirAt(d, old) /\ (IsFileAt(d, new) \/ Children(d, new) # {})
         THEN [err |-> TRUE, d |-> d]
    ELSE IF IsFileAt(d, old) /\ IsDirAt(d, new) THEN [err |-> TRUE, d |-> d]
    ELSE LET moved == {e \in d : e.path = old \/ IsUnder(e.path, old)}
             kept == {e \in d : e \notin moved /\ e.path # new}
         IN  [err |-> FALSE,
              d |-> kept \cup {[e EXCEPT !.path = Rebase(e.path, old, new)] : e \in moved}]

(***************************************************************************)
(* domain.FileInfo as the index and the cache use it:                      *)
(* [name, path, isDir, modTime, ext].  Size, Mode and ItemCount are        *)
(* carried by the code and read by no decision modelled here.              *)
(***************************************************************************)
FileInfo(name, path, isDir, modTime) ==
    [name |-> name, path |-> path, isDir |-> isDir, modTime |-> modTime,
     ext |-> Ext(name)]

\* the hidden check of the walk callback: some element of rel is hidden
AnyPartHidden(rel) ==
    \E parts \in {Split(rel, "/")} : \E i \in 1..Len(parts) : isHiddenFile(parts[i])

\* the walk callback without the project-junk filter
RECURSIVE walkKeepingJunk(_, _, _)
walkKeepingJunk(d, dir, showHidden) ==
    UNION {
        IF ~showHidden /\ AnyPartHidden(e.path) THEN {}
        ELSE {FileInfo(Base(e.path), e.path, e.isDir, e.mtime)}
             \cup (IF e.isDir THEN walkKeepingJunk(d, e.path, showHidden) ELSE {})
        : e \in Children(d, dir)}

\* the walk with a callback that tests the entry's own name and returns nil,
\* not SkipDir, for a hidden directory
RECURSIVE walkWithoutSkipDir(_, _, _)
walkWithoutSkipDir(d, dir, showHidden) ==
    UNION {
        (IF ~showHidden /\ isHiddenFile(Base(e.path)) THEN {}
         ELSE IF ~e.isDir /\ isProjectJunk(Base(e.path)) THEN {}
         ELSE {FileInfo(Base(e.path), e.path, e.isDir, e.mtime)})
        \cup (IF e.isDir THEN walkWithoutSkipDir(d, e.path, showHidden) ELSE {})
        : e \in Children(d, dir)}

\* filepath.Walk from the root with ReadDirRecursive's callback: the root is
\* skipped, a hidden directory is pruned (SkipDir), a hidden or junk file is
\* left out
RECURSIVE walk(_, _, _)
walk(d, dir, showHidden) ==
    UNION {
        IF ~showHidden /\ AnyPartHidden(e.path) THEN {}
        ELSE (IF ~e.isDir /\ isProjectJunk(Base(e.path)) THEN {}
              ELSE {FileInfo(Base(e.path), e.path, e.isDir, e.mtime)})
             \cup (IF e.isDir THEN walk(d, e.path, showHidden) ELSE {})
        : e \in Children(d, dir)}

\* LocalDriver.ReadDirRecursive on the tree d of the mount: the entries as a set
\* (the walk's order is lexical and carries no decision)
ReadDirRecursive(d, showHidden) == walk(d, ".", showHidden)

\* LocalDriver.ReadDir: [err, files]; the entries as a set, the order in
\* which the worker pool delivers them is not part of this operator
ReadDir(d, storageName, subPath, showHidden) ==
    LET v == validatePath(storageName, subPath)
        rel == RelOf(storageName, v.path)
    IN  IF v.err THEN [err |-> TRUE, files |-> {}]
        ELSE IF ~IsDirAt(d, rel) THEN [err |-> TRUE, files |-> {}]
        ELSE [err |-> FALSE,
              files |-> {FileInfo(Base(e.path), Join(subPath, Base(e.path)),
                                  e.isDir, e.mtime) :
                           e \in {c \in Children(d, rel) :
                                    showHidden \/ ~isHiddenFile(Base(c.path))}}]

(***************************************************************************)
(* LocalDriver's mutating operations on the tree d of the request's mount. *)
(* Each returns [err, d]: the error flag and the tree afterwards.          *)
(***************************************************************************)
\* deepest nesting the filesystem accepts below a mount root before a path
\* exceeds PATH_MAX and MkdirAll fails with ENAMETOOLONG
MaxDepth == 3

DriverCreateFolder(d, storageName, subPath, t) ==
    LET v == validatePath(storageName, subPath)
    IN  IF v.err THEN [err |-> TRUE, d |-> d]
        ELSE MkdirAll(d, RelOf(storageName, v.path), t)

DriverSaveFile(d, storageName, subPath, t) ==
    LET v == validatePath(storageName, subPath)
        rel == RelOf(storageName, v.path)
        m == MkdirAll(d, Dir(rel), t)
    IN  IF v.err THEN [err |-> TRUE, d |-> d]
        ELSE IF m.err THEN m
        ELSE CreateFile(m.d, rel, t)

DriverRename(d, storageName, oldPath, newPath) ==
    LET o == validatePath(storageName, oldPath)
        n == validatePath(storageName, newPath)
    IN  IF o.err \/ n.err THEN [err |-> TRUE, d |-> d]
        ELSE RenameFS(d, RelOf(storageName, o.path), RelOf(storageName, n.path))

DriverDelete(d, storageName, subPath) ==
    LET v == validatePath(storageName, subPath)
    IN  IF v.err THEN [err |-> TRUE, d |-> d]
        ELSE RemoveAll(d, RelOf(storageName, v.path))

\* copyFile: open src, create (truncate) dst, copy, sync
copyFile(d, src, dst, t) ==
    IF ~IsFileAt(d, src) THEN [err |-> TRUE, d |-> d] ELSE CreateFile(d, dst, t)

\* copyDir: MkdirAll(dst), read src's entries once, then copy them one after
\* the other, each on the tree the previous copies left; the first error ends
\* the loop.  The entries are taken in one fixed order.
RECURSIVE copyDir(_, _, _, _) , copyEntries(_, _, _, _, _)
copyDir(d, src, dst, t) ==
    IF ~IsDirAt(d, src) THEN [err |-> TRUE, d |-> d]
    ELSE IF Len(PathElems(dst)) > MaxDepth THEN [err |-> TRUE, d |-> d]
    ELSE LET m == MkdirAll(d, dst, t)
         IN  IF m.err THEN m
             ELSE copyEntries(m.d, {Base(e.path) : e \in Children(m.d, src)}, src, dst, t)

copyEntries(d, names, src, dst, t) ==
    IF names = {} THEN [err |-> FALSE, d |-> d]
    ELSE LET name == CHOOSE x \in names : TRUE
             srcPath == Join(src, name)
             dstPath == Join(dst, name)
             r == IF IsDirAt(d, srcPath) THEN copyDir(d, srcPath, dstPath, t)
                  ELSE copyFile(d, srcPath, dstPath, t)
         IN  IF r.err THEN r ELSE copyEntries(r.d, names \ {name}, src, dst, t)

DriverCopy(d, storageName, srcPath, dstPath, t) ==
    LET s == validatePath(storageName, srcPath)
        n == validatePath(storageName, dstPath)
        src == RelOf(storageName, s.path)
        dst == RelOf(storageName, n.path)
    IN  IF s.err \/ n.err THEN [err |-> TRUE, d |-> d]
        ELSE IF ~Exists(d, src) THEN [err |-> TRUE, d |-> d]
        ELSE IF IsDirAt(d, src) THEN copyDir(d, src, dst, t)
        ELSE copyFile(d, src, dst, t)

\* strings.TrimSuffix(base, ext)
TrimSuffix(s, suffix) ==
    IF HasSuffix(s, suffix) THEN SubSeq(s, 1, Len(s) - Len(suffix)) ELSE s

\* fmt.Sprintf("%d", n) for the counters the model reaches
Itoa(n) == CASE n = 0 -> "0" [] n = 1 -> "1" [] n = 2 -> "2" [] n = 3 -> "3"
             [] n = 4 -> "4" [] n = 5 -> "5" [] n = 6 -> "6" [] n = 7 -> "7"
             [] n = 8 -> "8" [] OTHER -> "9"

\* os.Stat(realPath) reports "not exist" for the path GetRealPath gave:
\* a rejected path is "", which never exists
StatNotExist(d, storageName, newPath) ==
    LET v == validatePath(storageName, newPath)
    IN  v.err \/ ~Exists(d, RelOf(storageName, v.path))

\* the name search of Duplicate from the candidate with this counter on
RECURSIVE duplicateName(_, _, _, _, _, _)
duplicateName(d, storageName, dir, nameWithoutExt, ext, counter) ==
    LET newPath == Join(dir, nameWithoutExt \o "_copy_" \o Itoa(counter) \o ext)
    IN  IF StatNotExist(d, storageName, newPath) THEN newPath
        ELSE duplicateName(d, storageName, dir, nameWithoutExt, ext, counter + 1)

\* filepath.Dir and filepath.Base of a raw path string
RECURSIVE LastSlash(_)
LastSlash(p) ==
    IF p = "" THEN 0
    ELSE IF Char(p, Len(p)) = "/" THEN Len(p)
    ELSE LastSlash(SubSeq(p, 1, Len(p) - 1))

RawDir(p) == Clean(SubSeq(p, 1, LastSlash(p)))

RECURSIVE StripTrailingSlashes(_)
StripTrailingSlashes(p) ==
    IF Len(p) > 0 /\ Char(p, Len(p)) = "/"
    THEN StripTrailingSlashes(SubSeq(p, 1, Len(p) - 1)) ELSE p

RawBase(p) ==
    IF p = "" THEN "."
    ELSE LET q == StripTrailingSlashes(p)
             e == Split(q, "/")
         IN  IF q = "" THEN "/" ELSE e[Len(e)]

\* Duplicate without its existence check: the destination is name_copy.ext
duplicateTargetUnchecked(d, storageName, srcPath) ==
    LET base == RawBase(srcPath)
    IN  Join(RawDir(srcPath), TrimSuffix(base, Ext(base)) \o "_copy" \o Ext(base))

\* FilesystemService.Duplicate up to its driver.Copy call: the destination
duplicateTarget(d, storageName, srcPath) ==
    LET dir == RawDir(srcPath)
        base == RawBase(srcPath)
        ext == Ext(base)
        nameWithoutExt == TrimSuffix(base, ext)
        first == Join(dir, nameWithoutExt \o "_copy" \o ext)
    IN  IF StatNotExist(d, storageName, first) THEN first
        ELSE duplicateName(d, storageName, dir, nameWithoutExt, ext, 1)

ServiceDuplicate(d, storageName, srcPath, t) ==
    DriverCopy(d, storageName, srcPath, duplicateTarget(d, storageName, srcPath), t)

(***************************************************************************)
(* The SQLite index: table files as a set of rows                          *)
(* [storage, name, path, is_dir, modified, extension].  The unique index   *)
(* idx_path_storage is over (storage, path).                               *)
(***************************************************************************)
SecondsPerDay == 86400

Max(a, b) == IF a >= b THEN a ELSE b

Min(a, b) == IF a <= b THEN a ELSE b

\* the values updateIndex binds to its INSERT for one FileInfo
IndexRow(storage, f) ==
    [storage |-> storage, name |-> f.name, path |-> f.path, is_dir |-> f.isDir,
     modified |-> f.modTime,
     extension |-> ToLower(IF Len(f.ext) > 0 /\ Head(f.ext) = "." THEN Tail(f.ext)
                           ELSE f.ext)]

IndexRows(storage, files) == {IndexRow(storage, f) : f \in files}

RowsOf(rows, storage) == {r \in rows : r.storage = storage}

\* the lower-cased extension arguments of the IN (...) list
ExtArgs(extensions) == {ToLower(extensions[i]) : i \in 1..Len(extensions)}

\* the WHERE clause SearchIndexedFiles builds
SearchPredicate(r, storage, extensions, days, nowT) ==
    /\ r.storage = storage
    /\ ~r.is_dir
    /\ ~HasPrefix(r.name, ".")
    /\ ~HasPrefix(r.name, "$")
    /\ ~HasPrefix(r.name, "~")
    /\ (Len(extensions) > 0 => r.extension \in ExtArgs(extensions))
    /\ (days > 0 => r.modified > nowT - days * SecondsPerDay)

SearchMatches(rows, storage, extensions, days, nowT) ==
    {r \in rows : SearchPredicate(r, storage, extensions, days, nowT)}

\* the orders ORDER BY modified DESC may deliver a set of rows in: rows with
\* equal modified come in an order SQLite chooses
RECURSIVE Perms(_)
Perms(S) ==
    IF S = {} THEN {<<>>}
    ELSE UNION {{<<x>> \o q : q \in Perms(S \ {x})} : x \in S}

ModifiedDescOrders(S) ==
    {q \in Perms(S) : \A i \in 1..(Len(q) - 1) : q[i].modified >= q[i + 1].modified}

\* SearchIndexedFiles with the page query answering without paging
SearchIndexedFilesUnpaged(rows, storage, extensions, limit, offset, days, nowT, ord) ==
    [files |-> IF limit <= 0 /\ offset <= 0 THEN <<>> ELSE ord,
     total |-> Cardinality(SearchMatches(rows, storage, extensions, days, nowT))]

\* SearchIndexedFiles: [files, total].  ord is the order the page query's
\* ORDER BY delivers the matches in.  SQLite's grammar has OFFSET only after
\* LIMIT, so the page query built for limit <= 0 and offset > 0 fails to
\* prepare and the function returns its "Query error" result.
SearchIndexedFiles(rows, storage, extensions, limit, offset, days, nowT, ord) ==
    LET total == Cardinality(SearchMatches(rows, storage, extensions, days, nowT))
        skip == IF offset > 0 THEN offset ELSE 0
    IN  IF limit <= 0 /\ offset <= 0 THEN [files |-> <<>>, total |-> total]
        ELSE IF limit <= 0 THEN [files |-> <<>>, total |-> 0]
        ELSE [files |-> SubSeq(ord, skip + 1, Min(skip + limit, Len(ord))),
              total |-> total]

\* the total of the count-only call SearchIndexedFiles(storage, exts, 0, 0, 0)
SearchTotal(rows, storage, extensions, nowT) ==
    SearchIndexedFiles(rows, storage, extensions, 0, 0, 0, nowT, <<>>).total

RECURSIVE SumOver(_, _)
SumOver(f, S) ==
    IF S = {} THEN 0
    ELSE LET x == CHOOSE y \in S : TRUE IN f[x] + SumOver(f, S \ {x})

\* FileManagerHandler.GetStats: req maps a category to its extension list
GetStats(rows, storage, req, nowT) ==
    LET totalFiles == SearchTotal(rows, storage, <<>>, nowT)
        named == DOMAIN req \ {"others"}
        counts == [c \in named |-> SearchTotal(rows, storage, req[c], nowT)]
        sumKnown == SumOver(counts, named)
    IN  [c \in DOMAIN req |->
            IF c = "others" THEN Max(totalFiles - sumKnown, 0) ELSE counts[c]]

(***************************************************************************)
(* State.                                                                  *)
(***************************************************************************)
VARIABLES
    disk,       \* the tree under each mount root: [MountNames -> set of entries]
    now,        \* the wall clock, in seconds
    cache,      \* FilesystemService.cache: key -> cacheEntry
    listings,   \* list calls that missed, read the disk and have yet to setCache
    db,         \* table files of storage_index.db (what a reader sees)
    jobs,       \* the reindex goroutines in flight: job id -> job
    indexer,    \* StartIndexing: "start", "pass" (in ReindexAll), "passTick" (in
                \* ReindexAll, a tick waiting in ticker.C) or "idle"
    failures,   \* the SQL statements that have failed so far, in order
    mutCount,   \* history: successful mutating calls per request storage name
    lastRet,    \* history: how the last list call returned
    ret         \* the call record of a pure function under check

vars == <<disk, now, cache, listings, db, jobs, indexer, failures,
          mutCount, lastRet, ret>>

(***************************************************************************)
(* Bounds and inputs.                                                      *)
(***************************************************************************)
\* successful mutating calls in one behaviour
MaxMutations == 2
\* clock ticks in one behaviour, each of TickSeconds
MaxTicks == 3
TickSeconds == 30
\* list calls between their disk read and their setCache at once
MaxListings == 1
\* cache entries, stored or about to be stored, at once
MaxCached == 1
\* SQL statement failures in one behaviour
MaxFailures == 1
\* largest limit, offset and days of a search call
MaxLimit == 2
MaxOffset == 2
MaxDays == 2

cacheTTL == 60

KnownNames == {n \in ReqNames : StorageKnown(n)}

Entry(path, isDir, mtime) == [path |-> path, isDir |-> isDir, mtime |-> mtime]

InitDisk ==
    [m \in MountNames |->
        IF m = "ssd"
        THEN {Entry(".", TRUE, 0), Entry("a.jpg", FALSE, 0), Entry("m.go", FALSE, 0),
              Entry(".h", TRUE, 0), Entry(".h/b.jpg", FALSE, 0)}
        ELSE {Entry(".", TRUE, 0), Entry("c.jpg", FALSE, 0)}]

\* the rows a previous run of the process left in storage_index.db
InitDb ==
    IndexRows("ssd", {FileInfo("z.jpg", "z.jpg", FALSE, 0)})
    \cup IndexRows("ssd2", {FileInfo("c.jpg", "c.jpg", FALSE, 0)})

\* the paths mutating requests name
ReqPaths == {"a.jpg", "d/n.go", ".h"}

\* the paths single-level list requests name
ListPaths == {"", "recursive"}

NoRet == [op |-> "none"]

RECURSIVE SumCounts(_, _)
SumCounts(f, S) ==
    IF S = {} THEN 0
    ELSE LET x == CHOOSE y \in S : TRUE IN f[x] + SumCounts(f, S \ {x})

\* successful mutating calls so far
Mutations == SumCounts(mutCount, KnownNames)

\* successful mutating calls so far on the mount a request name resolves to
MountMutations(storage) ==
    SumCounts(mutCount, {n \in KnownNames : MountOf(n) = MountOf(storage)})

RemoveAt(q, i) == SubSeq(q, 1, i - 1) \o SubSeq(q, i + 1, Len(q))

(***************************************************************************)
(* The read cache.                                                         *)
(***************************************************************************)
BoolStr(b) == IF b THEN "true" ELSE "false"

\* fmt.Sprintf("%s:%s:%t", storage, path, showHidden)
CacheKey(storage, path, showHidden) ==
    storage \o ":" \o path \o ":" \o BoolStr(showHidden)

\* getCache without the test of the entry's age
CacheHitNeverExpires(key) == key \in DOMAIN cache

\* getCache: the entry is there and not older than cacheTTL
CacheHit(key) ==
    /\ key \in DOMAIN cache
    /\ ~(now - cache[key].timestamp > cacheTTL)

\* the keys a test of the storage name alone, without the colon, would delete
InvalidatedKeysByNamePrefix(c, storage) ==
    {k \in DOMAIN c : Len(k) >= Len(storage) /\ SubSeq(k, 1, Len(storage)) = storage}

\* the keys the loop of invalidateStorage deletes
InvalidatedKeys(c, storage) ==
    LET prefix == storage \o ":"
    IN  {k \in DOMAIN c : Len(k) >= Len(prefix) /\ SubSeq(k, 1, Len(prefix)) = prefix}

\* the cache after the locked section of invalidateStorage
InvalidatedCache(c, storage) ==
    [k \in DOMAIN c \ InvalidatedKeys(c, storage) |-> c[k]]

\* the goroutine invalidateStorage starts: ReadDirRecursive(storage, true)
MutationJob(storage) ==
    [storage |-> storage, showHidden |-> TRUE, origin |-> "mutation", pc |-> "scan",
     files |-> {}, tx |-> {}, skipped |-> {}, startRows |-> {},
     overtaken |-> FALSE]

\* a goroutine of ReindexAll: ReadDirRecursive(st.Name, false)
PassJob(storage) ==
    [storage |-> storage, showHidden |-> FALSE, origin |-> "pass", pc |-> "scan",
     files |-> {}, tx |-> {}, skipped |-> {}, startRows |-> {},
     overtaken |-> FALSE]

(***************************************************************************)
(* Initial state: the process has been constructed; StartIndexing has been *)
(* started and has not yet run its initial scan.                           *)
(***************************************************************************)
ServiceInit ==
    /\ disk = InitDisk
    /\ now = 0
    /\ cache = <<>>
    /\ listings = <<>>
    /\ db = InitDb
    /\ jobs = <<>>
    /\ indexer = "start"
    /\ failures = <<>>
    /\ mutCount = [n \in KnownNames |-> 0]
    /\ lastRet = NoRet

Init == ServiceInit /\ ret = NoRet

(***************************************************************************)
(* List calls.  A call that misses reads the disk (ListFiles/ListAllFiles) *)
(* and stores and returns what it read in a later step (ListStore); a      *)
(* mutating call of another request can run in between.                    *)
(***************************************************************************)
\* stale: the files returned were read before the last successful mutating
\* call on the mount
ListReturn(storage, files, hit, err, stale) ==
    [op |-> "list", storage |-> storage, files |-> files, hit |-> hit, err |-> err,
     stale |-> stale]

\* getCache hit of ListFiles or ListAllFiles: the stored files are returned
ListFromCache(storage, key) ==
    /\ CacheHit(key)
    /\ lastRet' = ListReturn(storage, cache[key].files, TRUE, FALSE,
                             cache[key].epoch # MountMutations(cache[key].storage))
    /\ UNCHANGED <<disk, now, cache, listings, db, jobs, indexer, failures,
                   mutCount, ret>>

\* getCache miss: the driver reads the disk; setCache follows in ListStore
ListFromDisk(storage, key, r) ==
    /\ ~CacheHit(key)
    /\ IF r.err
       THEN /\ lastRet' = ListReturn(storage, {}, FALSE, TRUE, FALSE)
            /\ UNCHANGED listings
       ELSE /\ Len(listings) < MaxListings
            /\ Cardinality(DOMAIN cache \cup {key}) <= MaxCached
            /\ listings' = Append(listings,
                                  [key |-> key, storage |-> storage, files |-> r.files,
                                   epoch |-> MountMutations(storage)])
            /\ UNCHANGED lastRet
    /\ UNCHANGED <<disk, now, cache, db, jobs, indexer, failures,
                   mutCount, ret>>

\* FilesystemService.ListFiles up to its setCache
ListFiles(storage, path, showHidden) ==
    LET key == CacheKey(storage, path, showHidden)
    IN  \/ ListFromCache(storage, key)
        \/ ListFromDisk(storage, key,
                        IF StorageKnown(storage)
                        THEN ReadDir(disk[MountOf(storage)], storage, path, showHidden)
                        ELSE [err |-> TRUE, files |-> {}])

\* FilesystemService.ListAllFiles up to its setCache
ListAllFiles(storage, showHidden) ==
    LET key == CacheKey(storage, "recursive", showHidden)
    IN  \/ ListFromCache(storage, key)
        \/ ListFromDisk(storage, key,
                        IF StorageKnown(storage)
                        THEN [err |-> FALSE,
                              files |-> ReadDirRecursive(disk[MountOf(storage)], showHidden)]
                        ELSE [err |-> TRUE, files |-> {}])

\* setCache and the return of a list call that read the disk
ListStore(i) ==
    LET l == listings[i]
        entry == [files |-> l.files, timestamp |-> now, storage |-> l.storage,
                  epoch |-> l.epoch]
    IN  /\ cache' = [k \in DOMAIN cache \cup {l.key} |->
                        IF k = l.key THEN entry ELSE cache[k]]
        /\ listings' = RemoveAt(listings, i)
        /\ lastRet' = ListReturn(l.storage, l.files, FALSE, FALSE,
                                 l.epoch # MountMutations(l.storage))
        /\ UNCHANGED <<disk, now, db, jobs, indexer, failures,
                       mutCount, ret>>

\* the clock advances
Tick ==
    /\ now < MaxTicks * TickSeconds
    /\ now' = now + TickSeconds
    /\ UNCHANGED <<disk, cache, listings, db, jobs, indexer, failures,
                   mutCount, lastRet, ret>>

(***************************************************************************)
(* Mutating calls of FilesystemService: the driver operation and, when it  *)
(* returned no error, invalidateStorage.                                   *)
(***************************************************************************)
\* the jobs in flight and one more, under this id
WithJob(js, id, j) == [k \in DOMAIN js \cup {id} |-> IF k = id THEN j ELSE js[k]]

\* an invalidateStorage that starts no goroutine while one of the storage runs
invalidateStorageUnlessRunning(storage) ==
    /\ cache' = InvalidatedCache(cache, storage)
    /\ jobs' = IF \E i \in DOMAIN jobs : jobs[i].storage = storage
               THEN jobs
               ELSE WithJob(jobs, Mutations + 1, MutationJob(storage))

\* invalidateStorage: the locked deletion, then the reindex goroutine; the
\* goroutines mutating calls start are numbered 1, 2, ... as they start
invalidateStorage(storage) ==
    /\ cache' = InvalidatedCache(cache, storage)
    /\ jobs' = WithJob(jobs, Mutations + 1, MutationJob(storage))

\* a mutating call: r is what the driver operation returned, [err, d] with d
\* the tree of the mount afterwards; on a storage name no mount answers to
\* the driver fails in getStorageRoot and touches no tree
Mutate(storage, r) ==
    /\ disk' = IF StorageKnown(storage) THEN [disk EXCEPT ![MountOf(storage)] = r.d]
                ELSE disk
    /\ IF r.err
       THEN UNCHANGED <<cache, jobs, mutCount>>
       ELSE /\ Mutations < MaxMutations
            /\ invalidateStorage(storage)
            /\ mutCount' = [mutCount EXCEPT ![storage] = @ + 1]
    /\ lastRet' = NoRet
    /\ UNCHANGED <<now, listings, db, indexer, failures, ret>>

\* the tree the driver resolves the storage name to
Tree(storage) == IF StorageKnown(storage) THEN disk[MountOf(storage)] ELSE {}

CreateFolder(storage, path) ==
    Mutate(storage, DriverCreateFolder(Tree(storage), storage, path, now))

UploadFile(storage, path) ==
    Mutate(storage, DriverSaveFile(Tree(storage), storage, path, now))

RenameOrMove(storage, oldPath, newPath) ==
    Mutate(storage, DriverRename(Tree(storage), storage, oldPath, newPath))

Copy(storage, srcPath, dstPath) ==
    Mutate(storage, DriverCopy(Tree(storage), storage, srcPath, dstPath, now))

Duplicate(storage, srcPath) ==
    Mutate(storage, ServiceDuplicate(Tree(storage), storage, srcPath, now))

Delete(storage, path) ==
    Mutate(storage, DriverDelete(Tree(storage), storage, path))

(***************************************************************************)
(* The reindex scheduler and updateIndex.  A job is one goroutine: it walks *)
(* the mount (pc "scan" -> "walked"), then runs updateIndex: Begin          *)
(* ("begun"), DELETE ("deleted"), Prepare and the INSERT loop ("inserted"), *)
(* Commit (the job ends).  The statements of a transaction act on the       *)
(* transaction's own view (tx) and reach table files at Commit; SQLite      *)
(* lets one transaction write at a time, from its first write to its end.   *)
(***************************************************************************)
\* the storages ListStorages returns, in one order of the map's iteration
MountSeq == <<"ssd", "ssd2">>

\* the id of the goroutine ReindexAll starts for the i-th storage
PassId(i) == 0 - i

PassIds == {PassId(i) : i \in 1..Len(MountSeq)}

\* ReindexAll starting the goroutine of the first storage only
WithPassJobsFirstOnly(js) == WithJob(js, PassId(1), PassJob(MountSeq[1]))

\* ReindexAll up to wg.Wait: one goroutine per storage
WithPassJobs(js) ==
    [k \in DOMAIN js \cup PassIds |->
        IF k \in PassIds THEN PassJob(MountSeq[0 - k]) ELSE js[k]]

PassRunning == \E i \in DOMAIN jobs : jobs[i].origin = "pass"

\* StartIndexing's initial scan
InitialScan ==
    /\ indexer = "start"
    /\ indexer' = "pass"
    /\ jobs' = WithPassJobs(jobs)
    /\ UNCHANGED <<disk, now, cache, listings, db, failures, mutCount, lastRet, ret>>

\* wg.Wait returns: every goroutine of the pass has ended
PassDone ==
    /\ indexer = "pass"
    /\ ~PassRunning
    /\ indexer' = "idle"
    /\ UNCHANGED <<disk, now, cache, listings, db, jobs, failures, mutCount, lastRet,
                   ret>>

\* the 30-minute ticker fires while StartIndexing is in ReindexAll: ticker.C
\* holds one tick; a tick that finds it full is dropped by the ticker
TickBuffered ==
    /\ indexer = "pass"
    /\ indexer' = "passTick"
    /\ UNCHANGED <<disk, now, cache, listings, db, jobs, failures, mutCount, lastRet,
                   ret>>

\* wg.Wait returns with a tick in ticker.C: the loop receives it at once and
\* calls ReindexAll
PassDoneTick ==
    /\ indexer = "passTick"
    /\ ~PassRunning
    /\ indexer' = "pass"
    /\ jobs' = WithPassJobs(jobs)
    /\ UNCHANGED <<disk, now, cache, listings, db, failures, mutCount, lastRet, ret>>

\* the 30-minute ticker fires while StartIndexing waits on ticker.C
TickerFire ==
    /\ indexer = "idle"
    /\ indexer' = "pass"
    /\ jobs' = WithPassJobs(jobs)
    /\ UNCHANGED <<disk, now, cache, listings, db, failures, mutCount, lastRet, ret>>

JobVars(i, j) ==
    /\ jobs' = [jobs EXCEPT ![i] = j]
    /\ UNCHANGED <<disk, now, cache, listings, indexer, mutCount, lastRet, ret>>

\* the job ends; overtaken records, on the jobs still in flight, that a rebuild
\* of their storage has committed since they began
JobEnds(i, committed) ==
    /\ jobs' = [k \in DOMAIN jobs \ {i} |->
                    IF committed /\ jobs[k].storage = jobs[i].storage
                    THEN [jobs[k] EXCEPT !.overtaken = TRUE] ELSE jobs[k]]
    /\ UNCHANGED <<disk, now, cache, listings, indexer, mutCount, lastRet, ret>>

\* driver.ReadDirRecursive(storage, showHidden) of the goroutine
JobWalk(i) ==
    LET j == jobs[i]
        d == disk[MountOf(j.storage)]
    IN  /\ j.pc = "scan"
        /\ JobVars(i, [j EXCEPT !.pc = "walked",
                                !.files = ReadDirRecursive(d, j.showHidden)])
        /\ UNCHANGED <<db, failures>>

\* s.db.Begin()
TxBegin(i) ==
    LET j == jobs[i]
    IN  /\ j.pc = "walked"
        /\ JobVars(i, [j EXCEPT !.pc = "begun", !.startRows = RowsOf(db, j.storage),
                                !.overtaken = FALSE])
        /\ UNCHANGED <<db, failures>>

Writing(i) == jobs[i].pc \in {"deleted", "inserted"}

\* what a reader sees of table files once a transaction has run its DELETE,
\* were the statement run on the database handle instead of the transaction
TableAfterDeleteOutsideTx(rows, storage) == rows \ RowsOf(rows, storage)

\* what a reader sees of table files once a transaction has run its DELETE
TableAfterDelete(rows, storage) == rows

\* tx.Exec("DELETE FROM files WHERE storage = ?"): waits for the write lock
TxDelete(i) ==
    LET j == jobs[i]
    IN  /\ j.pc = "begun"
        /\ \A k \in DOMAIN jobs : ~Writing(k)
        /\ JobVars(i, [j EXCEPT !.pc = "deleted", !.tx = {}])
        /\ db' = TableAfterDelete(db, j.storage)
        /\ UNCHANGED failures

\* what a reader sees of table files once a transaction has run its INSERTs
TableAfterInsert(rows, inserted) == rows

\* a failed statement of a rebuild of storage
Failure(at, storage) == [at |-> at, storage |-> storage]

\* an INSERT loop that returns at a failing row: the deferred Rollback runs
TxInsertAbortingOnFailure(i, skipped) ==
    LET j == jobs[i]
    IN  /\ j.pc = "deleted"
        /\ skipped \subseteq j.files
        /\ Len(failures) + Cardinality(skipped) <= MaxFailures
        /\ failures' = failures \o [k \in 1..Cardinality(skipped) |->
                                       Failure("insert", j.storage)]
        /\ db' = db
        /\ IF skipped = {}
           THEN JobVars(i, [j EXCEPT !.pc = "inserted",
                                     !.tx = IndexRows(j.storage, j.files)])
           ELSE JobEnds(i, FALSE)

\* tx.Prepare and the INSERT loop; the rows of skipped fail and are passed over
TxInsert(i, skipped) ==
    LET j == jobs[i]
        inserted == IndexRows(j.storage, j.files \ skipped)
    IN  /\ j.pc = "deleted"
        /\ skipped \subseteq j.files
        /\ Len(failures) + Cardinality(skipped) <= MaxFailures
        /\ failures' = failures \o [k \in 1..Cardinality(skipped) |->
                                       Failure("insert", j.storage)]
        /\ JobVars(i, [j EXCEPT !.pc = "inserted", !.tx = inserted, !.skipped = skipped])
        /\ db' = TableAfterInsert(db, inserted)

\* table files after a commit whose DELETE had no WHERE clause
TableAfterCommitClearingAll(rows, storage, tx) == tx

\* table files after a commit whose DELETE removed nothing
TableAfterCommitKeepingRows(rows, storage, tx) == rows \cup tx

\* table files after the transaction of a rebuild of storage commits
TableAfterCommit(rows, storage, tx) == (rows \ RowsOf(rows, storage)) \cup tx

\* tx.Commit() succeeds; updateIndex and the goroutine return
TxCommit(i) ==
    LET j == jobs[i]
    IN  /\ j.pc = "inserted"
        /\ db' = TableAfterCommit(db, j.storage, j.tx)
        /\ JobEnds(i, TRUE)
        /\ UNCHANGED failures

\* table files after a transaction is rolled back
TableAfterRollbackKeepsTx(rows, storage, tx) == (rows \ RowsOf(rows, storage)) \cup tx

TableAfterRollback(rows, storage, tx) == rows

\* the statement of updateIndex a job is about to run
NextStatement(j) ==
    CASE j.pc = "walked" -> "begin"
      [] j.pc = "begun" -> "delete"
      [] j.pc = "deleted" -> "prepare"
      [] j.pc = "inserted" -> "commit"
      [] OTHER -> "none"

\* Begin, the DELETE, Prepare or Commit returns an error: updateIndex prints it
\* and returns, the deferred tx.Rollback() discards the transaction
TxFail(i) ==
    LET j == jobs[i]
    IN  /\ Len(failures) < MaxFailures
        /\ NextStatement(j) # "none"
        /\ failures' = Append(failures, Failure(NextStatement(j), j.storage))
        /\ db' = TableAfterRollback(db, j.storage, j.tx)
        /\ JobEnds(i, FALSE)

(***************************************************************************)
(* Specifications of the service.                                          *)
(***************************************************************************)
\* the mutating calls, issued with these storage names and paths
MutationCalls(names, paths) ==
    \/ \E storage \in names, path \in paths : CreateFolder(storage, path)
    \/ \E storage \in names, path \in paths : UploadFile(storage, path)
    \/ \E storage \in names, oldPath \in paths, newPath \in paths :
          RenameOrMove(storage, oldPath, newPath)
    \/ \E storage \in names, srcPath \in paths, dstPath \in paths :
          Copy(storage, srcPath, dstPath)
    \/ \E storage \in names, srcPath \in paths : Duplicate(storage, srcPath)
    \/ \E storage \in names, path \in paths : Delete(storage, path)

\* the list calls, issued with these storage names and paths, and the clock
ListCalls(names, paths, flags) ==
    \/ \E storage \in names, path \in paths, showHidden \in flags :
          ListFiles(storage, path, showHidden)
    \/ \E storage \in names, showHidden \in flags : ListAllFiles(storage, showHidden)
    \/ \E i \in DOMAIN listings : ListStore(i)
    \/ Tick

\* the steps of the reindex goroutines whose statements succeed
RebuildNext ==
    \/ \E i \in DOMAIN jobs : JobWalk(i)
    \/ \E i \in DOMAIN jobs : TxBegin(i)
    \/ \E i \in DOMAIN jobs : TxDelete(i)
    \/ \E i \in DOMAIN jobs : TxInsert(i, {})
    \/ \E i \in DOMAIN jobs : TxCommit(i)

\* the steps of the reindex goroutines in which a statement fails
FaultNext ==
    \/ \E i \in DOMAIN jobs : \E skipped \in SUBSET jobs[i].files \ {{}} :
          TxInsert(i, skipped)
    \/ \E i \in DOMAIN jobs : TxFail(i)

Next ==
    \/ MutationCalls(ReqNames, ReqPaths)
    \/ ListCalls(ReqNames, ListPaths, BOOLEAN)
    \/ InitialScan \/ PassDone \/ TickerFire
    \/ RebuildNext
    \/ FaultNext

Spec == Init /\ [][Next]_vars

\* the cache under list calls and mutating calls; the reindex goroutines the
\* mutating calls start touch neither the cache nor the disk
CacheNames == {"ssd", "SSD", "usb"}

CachePaths == {"a.jpg", "d"}

\* successful mutating calls in one behaviour of the cache
MaxCacheMutations == 1

\* mutating calls are issued until MaxCacheMutations of them have succeeded
CacheOpen == Mutations < MaxCacheMutations

CacheNext ==
    \/ ListCalls(CacheNames, {""}, {FALSE})
    \/ \E storage \in CacheNames, path \in CachePaths :
          CacheOpen /\ CreateFolder(storage, path)
    \/ \E storage \in CacheNames, path \in CachePaths :
          CacheOpen /\ UploadFile(storage, path)
    \/ \E storage \in CacheNames, oldPath \in CachePaths, newPath \in CachePaths :
          CacheOpen /\ RenameOrMove(storage, oldPath, newPath)
    \/ \E storage \in CacheNames, srcPath \in CachePaths, dstPath \in CachePaths :
          CacheOpen /\ Copy(storage, srcPath, dstPath)
    \/ \E storage \in CacheNames, srcPath \in CachePaths :
          CacheOpen /\ Duplicate(storage, srcPath)
    \/ \E storage \in CacheNames, path \in CachePaths :
          CacheOpen /\ Delete(storage, path)

SpecCache == Init /\ [][CacheNext]_vars

\* the index from the start of the process through the initial scan, under
\* uploads and deletions and failing statements; list calls touch neither
\* the index nor the disk
IndexNames == {"ssd", "SSD"}

IndexerNext ==
    \/ InitialScan \/ PassDone
    \/ RebuildNext
    \/ FaultNext
    \/ \E storage \in IndexNames : UploadFile(storage, "a.jpg")
    \/ \E storage \in IndexNames : Delete(storage, "a.jpg")

SpecIndex == Init /\ [][IndexerNext]_vars

\* the index under the scheduler with its ticker, uploads and deletions, when
\* every statement succeeds.  The Go scheduler runs every goroutine that can
\* run, the ticker keeps firing, and a transaction that waits for the write
\* lock is let through.
LiveNames == {"SSD"}

LiveNext ==
    \/ InitialScan \/ PassDone \/ TickerFire
    \/ RebuildNext
    \/ \E storage \in LiveNames : UploadFile(storage, "a.jpg")
    \/ \E storage \in LiveNames : Delete(storage, "a.jpg")

JobIds == (1..MaxMutations) \cup PassIds

JobStep(i) ==
    /\ i \in DOMAIN jobs
    /\ (JobWalk(i) \/ TxBegin(i) \/ TxDelete(i) \/ TxInsert(i, {}) \/ TxCommit(i))

\* a goroutine is in flight
JobPending(i) == i \in DOMAIN jobs

\* The scheduler's steps are weakly fair.  A goroutine in flight always has a
\* step except while its DELETE waits for the write lock, so its fairness is
\* strong: the last conjunct is SF_vars(JobStep(i)) with the enabling
\* condition of JobStep(i) written out as the goroutine being in flight.
LiveFairness ==
    /\ WF_vars(InitialScan)
    /\ WF_vars(PassDone)
    /\ WF_vars(TickerFire)
    /\ \A i \in JobIds : []<>JobPending(i) => []<><<JobStep(i)>>_vars

SpecLive == Init /\ [][LiveNext]_vars /\ LiveFairness

(***************************************************************************)
(* GET /api/reindex.  The handler starts a goroutine that runs ReindexAll  *)
(* and returns; that goroutine starts one goroutine per storage and waits  *)
(* for them.  The goroutine of the k-th request has the id ReindexId(k),   *)
(* the one it starts for the i-th storage ReindexId(k) - i.                *)
(***************************************************************************)
\* reindex requests in one behaviour
MaxReindexCalls == 1

ReindexReturn(calls) ==
    [op |-> "reindex", message |-> "Reindexing started in background", calls |-> calls]

\* the handler between its go statement and its return
ReindexPending(calls) == [op |-> "reindexing", calls |-> calls]

\* reindex requests so far
ReindexCalls == IF lastRet.op \in {"reindex", "reindexing"} THEN lastRet.calls ELSE 0

ReindexId(k) == 0 - k * (Len(MountSeq) + 1) - Len(MountSeq)

ReindexIds == {ReindexId(k) : k \in 1..MaxReindexCalls}

\* the goroutine go h.service.ReindexAll() starts
ReindexAllJob ==
    [storage |-> "", showHidden |-> FALSE, origin |-> "reindex", pc |-> "start",
     files |-> {}, tx |-> {}, skipped |-> {}, startRows |-> {}, overtaken |-> FALSE]

\* the goroutines the ReindexAll of goroutine id starts
ReindexJobIds(id) == {id - i : i \in 1..Len(MountSeq)}

\* a goroutine of ReindexAll that walks as invalidateStorage's goroutine does
RequestJobShowingHidden(storage) == [MutationJob(storage) EXCEPT !.origin = "request"]

\* a goroutine of the ReindexAll of a reindex request
RequestJob(storage) == [PassJob(storage) EXCEPT !.origin = "request"]

\* FileManagerHandler.Reindex: go h.service.ReindexAll()
ReindexGo ==
    /\ ReindexCalls < MaxReindexCalls
    /\ lastRet.op # "reindexing"
    /\ jobs' = WithJob(jobs, ReindexId(ReindexCalls + 1), ReindexAllJob)
    /\ lastRet' = ReindexPending(ReindexCalls + 1)
    /\ UNCHANGED <<disk, now, cache, listings, db, indexer, failures, mutCount, ret>>

\* a handler that returns when the ReindexAll it started has ended
ReindexRespondAfterWait ==
    /\ lastRet.op = "reindexing"
    /\ ReindexId(lastRet.calls) \notin DOMAIN jobs
    /\ lastRet' = ReindexReturn(lastRet.calls)
    /\ UNCHANGED <<disk, now, cache, listings, db, jobs, indexer, failures, mutCount,
                   ret>>

\* FileManagerHandler.Reindex: return c.JSON(...)
ReindexRespond ==
    /\ lastRet.op = "reindexing"
    /\ lastRet' = ReindexReturn(lastRet.calls)
    /\ UNCHANGED <<disk, now, cache, listings, db, jobs, indexer, failures, mutCount,
                   ret>>

\* FileManagerHandler.Reindex; the goroutine it starts runs beside it
Reindex == ReindexGo \/ ReindexRespond

\* ReindexAll of a reindex request up to wg.Wait
ReindexAllStart(id) ==
    /\ id \in DOMAIN jobs
    /\ jobs[id].origin = "reindex"
    /\ jobs[id].pc = "start"
    /\ jobs' = [k \in DOMAIN jobs \cup ReindexJobIds(id) |->
                   IF k \in ReindexJobIds(id)
                   THEN RequestJob(MountSeq[id - k])
                   ELSE IF k = id THEN [jobs[id] EXCEPT !.pc = "wait"]
                   ELSE jobs[k]]
    /\ UNCHANGED <<disk, now, cache, listings, db, indexer, failures, mutCount,
                   lastRet, ret>>

\* wg.Wait returns in the ReindexAll of a reindex request; the goroutine ends
ReindexAllDone(id) ==
    /\ id \in DOMAIN jobs
    /\ jobs[id].origin = "reindex"
    /\ jobs[id].pc = "wait"
    /\ ReindexJobIds(id) \cap DOMAIN jobs = {}
    /\ jobs' = [k \in DOMAIN jobs \ {id} |-> jobs[k]]
    /\ UNCHANGED <<disk, now, cache, listings, db, indexer, failures, mutCount,
                   lastRet, ret>>

\* the index under the scheduler and reindex requests, with no mutating call
\* and every statement succeeding
ReindexNext ==
    \/ InitialScan \/ PassDone \/ TickerFire
    \/ Reindex
    \/ \E id \in ReindexIds : ReindexAllStart(id)
    \/ \E id \in ReindexIds : ReindexAllDone(id)
    \/ RebuildNext

\* every goroutine ReindexNext can start
ReindexGoroutines == PassIds \cup UNION {ReindexJobIds(id) : id \in ReindexIds}

\* the Go scheduler runs every goroutine that can run, as in LiveFairness
ReindexFairness ==
    /\ WF_vars(InitialScan)
    /\ WF_vars(PassDone)
    /\ WF_vars(TickerFire)
    /\ WF_vars(ReindexRespond)
    /\ \A id \in ReindexIds : WF_vars(ReindexAllStart(id))
    /\ \A id \in ReindexIds : WF_vars(ReindexAllDone(id))
    /\ \A i \in ReindexGoroutines : []<>JobPending(i) => []<><<JobStep(i)>>_vars

SpecReindex == Init /\ [][ReindexNext]_vars /\ ReindexFairness

\* the cache under single-level and full listings of an unchanging disk
KeyNames == {"ssd", "SSD"}

KeyNext == ListCalls(KeyNames, ListPaths, {FALSE})

SpecKeys == Init /\ [][KeyNext]_vars

\* deletions, renames and moves issued with paths that name the mount root
RootNames == {"ssd", "SSD", "ssd2"}

RootPaths == {"/", ".", "a.jpg", ".h", "d"}

RootNext ==
    \/ \E storage \in RootNames, path \in RootPaths : Delete(storage, path)
    \/ \E storage \in RootNames, oldPath \in RootPaths, newPath \in RootPaths :
          RenameOrMove(storage, oldPath, newPath)

SpecRoot == Init /\ [][RootNext]_vars

\* copies on mounts that hold directories, into and out of the source
CopyNames == {"ssd", "SSD"}

CopyPaths == {"d", "d/x", "a.jpg", "/"}

CopyNext ==
    \/ \E storage \in CopyNames : CreateFolder(storage, "d")
    \/ \E storage \in CopyNames, srcPath \in CopyPaths, dstPath \in CopyPaths :
          Copy(storage, srcPath, dstPath)

SpecCopy == Init /\ [][CopyNext]_vars

\* Duplicate calls of concurrent requests: the name search of a call (the
\* loop over os.Stat) and its driver.Copy are two steps, and the steps of
\* another call can run in between
MaxDuplicates == 2

RaceNames == {"ssd", "SSD"}

RacePaths == {"a.jpg", "m.go", "z.jpg"}

NoDuplicates == [op |-> "duplicates", calls |-> <<>>]

RaceInit == ServiceInit /\ ret = NoDuplicates

\* Duplicate up to the end of its loop: newPath is the first candidate that
\* os.Stat reports as not existing
DuplicateSearch(storage, srcPath) ==
    /\ Len(ret.calls) < MaxDuplicates
    /\ ret' = [ret EXCEPT !.calls =
                  Append(@, [storage |-> storage, srcPath |-> srcPath,
                             newPath |-> duplicateTarget(Tree(storage), storage, srcPath),
                             pc |-> "copy", err |-> FALSE])]
    /\ UNCHANGED <<disk, now, cache, listings, db, jobs, indexer, failures, mutCount,
                   lastRet>>

\* Duplicate from its driver.Copy on: the copy to newPath and, when it
\* returned no error, invalidateStorage
DuplicateCopy(i) ==
    LET c == ret.calls[i]
        r == DriverCopy(Tree(c.storage), c.storage, c.srcPath, c.newPath, now)
    IN  /\ c.pc = "copy"
        /\ disk' = [disk EXCEPT ![MountOf(c.storage)] = r.d]
        /\ IF r.err
           THEN UNCHANGED <<cache, jobs, mutCount>>
           ELSE /\ invalidateStorage(c.storage)
                /\ mutCount' = [mutCount EXCEPT ![c.storage] = @ + 1]
        /\ ret' = [ret EXCEPT !.calls[i].pc = "returned", !.calls[i].err = r.err]
        /\ UNCHANGED <<now, listings, db, indexer, failures, lastRet>>

RaceNext ==
    \/ \E storage \in RaceNames, srcPath \in RacePaths : DuplicateSearch(storage, srcPath)
    \/ \E i \in 1..MaxDuplicates : i \in DOMAIN ret.calls /\ DuplicateCopy(i)

SpecRace == RaceInit /\ [][RaceNext]_vars

(***************************************************************************)
(* Properties of the service.                                              *)
(***************************************************************************)
\* C1: a list call served from the cache never returns files that were read
\* before the last successful mutating call on the storage's mount: after a
\* mutating call the next read of the storage recomputes from disk
C1_CacheCorrectness ==
    (lastRet.op = "list" /\ lastRet.hit) => ~lastRet.stale

\* the entries below the root of a storage's mount that are no directories and
\* have no hidden element in their path
NonHiddenFiles(storage) ==
    {e \in disk[MountOf(storage)] :
        e.path # "." /\ ~e.isDir /\ ~AnyPartHidden(e.path)}

\* job i is a goroutine of ReindexAll whose walk saw the mount as it is now,
\* every INSERT of which succeeded, and this step is its Commit
PassCommits(i) ==
    /\ jobs[i].origin = "pass"
    /\ jobs[i].pc = "inserted"
    /\ jobs[i].skipped = {}
    /\ jobs[i].files = ReadDirRecursive(disk[MountOf(jobs[i].storage)], FALSE)
    /\ i \notin DOMAIN jobs'
    /\ failures' = failures

C7_RebuildAtomicity ==
    [][\A storage \in KnownNames :
          \/ RowsOf(db', storage) = RowsOf(db, storage)
          \/ \E i \in DOMAIN jobs :
                /\ jobs[i].storage = storage
                /\ jobs[i].pc = "inserted"
                /\ i \notin DOMAIN jobs'
                /\ RowsOf(db', storage) = jobs[i].tx]_vars

\* a rebuild has run its DELETE and its INSERTs and not yet its Commit, and a
\* reader still sees the rows from before it, which are not the rebuild's
C7_Witness ==
    \E i \in DOMAIN jobs :
        /\ jobs[i].pc = "inserted"
        /\ jobs[i].tx # {}
        /\ RowsOf(db, jobs[i].storage) = jobs[i].startRows
        /\ jobs[i].startRows # {}
        /\ jobs[i].startRows # jobs[i].tx

\* job i ends in this step with Begin, DELETE, Prepare or Commit failing
RebuildFails(i) ==
    /\ i \notin DOMAIN jobs'
    /\ Len(failures') = Len(failures) + 1
    /\ failures'[Len(failures')].at \in {"begin", "delete", "prepare", "commit"}

\* C8: a rebuild that fails at Begin, DELETE, Prepare or Commit changes no row
\* of any storage, and the rows of its storage are those its transaction began
\* with unless another rebuild of the storage has committed in between
C8_FailedRebuildRollsBack ==
    [][\A i \in DOMAIN jobs :
          RebuildFails(i) =>
              /\ db' = db
              /\ (jobs[i].pc # "walked" /\ ~jobs[i].overtaken)
                    => RowsOf(db', jobs[i].storage) = jobs[i].startRows]_vars

\* the Commit of a rebuild of ssd that had deleted and inserted rows has
\* failed, and the index of ssd holds the rows the previous run left
C8_Witness ==
    /\ failures = <<Failure("commit", "ssd")>>
    /\ RowsOf(db, "ssd") = RowsOf(InitDb, "ssd")
    /\ RowsOf(db, "ssd") # IndexRows("ssd", ReadDirRecursive(disk["ssd"], FALSE))

\* the index rows of a storage agree with the mount: every row is a path of
\* the mount, and every entry of the mount an index walk keeps has its row
Reflects(storage) ==
    LET d == disk[MountOf(storage)]
        rows == RowsOf(db, storage)
    IN  /\ \A r \in rows : Exists(d, r.path)
        /\ \A e \in d :
              (/\ e.path # "."
               /\ ~AnyPartHidden(e.path)
               /\ ~(~e.isDir /\ isProjectJunk(Base(e.path))))
              => \E r \in rows : r.path = e.path

\* C9: once a mutating call on a storage has succeeded and no mutating call
\* follows, the index rows of the storage come to agree with the disk
C9_EventualIndexCorrection ==
    \A storage \in LiveNames :
        (mutCount[storage] > 0 /\ Mutations = MaxMutations) ~> Reflects(storage)

\* a goroutine of ReindexAll commits its rebuild of a storage in this step
ReindexCommits(i) ==
    /\ jobs[i].origin \in {"pass", "request"}
    /\ jobs[i].pc = "inserted"
    /\ i \notin DOMAIN jobs'

\* a rebuild of the storage has committed since the process started
RebuiltBefore(storage) == RowsOf(db, storage) # RowsOf(InitDb, storage)

PathsOf(rows, storage) == {r.path : r \in RowsOf(rows, storage)}

MutatingCallResults(storage, paths) ==
    {DriverCreateFolder(Tree(storage), storage, path, now) : path \in paths}
    \cup {DriverSaveFile(Tree(storage), storage, path, now) : path \in paths}
    \cup {DriverRename(Tree(storage), storage, oldPath, newPath) :
             oldPath \in paths, newPath \in paths}
    \cup {DriverCopy(Tree(storage), storage, srcPath, dstPath, now) :
             srcPath \in paths, dstPath \in paths}
    \cup {ServiceDuplicate(Tree(storage), storage, srcPath, now) : srcPath \in paths}
    \cup {DriverDelete(Tree(storage), storage, path) : path \in paths}

\* two storage names of requests name the same storage
SameStorage(a, b) == StorageKnown(a) /\ StorageKnown(b) /\ MountOf(a) = MountOf(b)

\* exactly one goroutine has started in this step: a reindex of the storage
OneReindexLaunched(storage) ==
    \E i \in DOMAIN jobs' \ DOMAIN jobs :
        /\ DOMAIN jobs' = DOMAIN jobs \cup {i}
        /\ jobs'[i] = MutationJob(storage)
        /\ \A k \in DOMAIN jobs : jobs'[k] = jobs[k]

\* C16: a mutating call that returns an error leaves every cache entry as it
\* was and starts no reindex; one that returns nil has removed the cache
\* entries of the storage, left the other entries as they were, and started
\* exactly one reindex of the storage.
C16_InvalidationOnlyOnSuccess ==
    [][(now' = now /\ listings' = listings /\ lastRet' = NoRet)
       => \A storage \in CacheNames : \A r \in MutatingCallResults(storage, CachePaths) :
             Mutate(storage, r)
             => IF r.err THEN cache' = cache /\ jobs' = jobs
                ELSE /\ \A k \in DOMAIN cache' : ~SameStorage(cache'[k].storage, storage)
                     /\ \A k \in DOMAIN cache :
                           ~SameStorage(cache[k].storage, storage)
                           => k \in DOMAIN cache' /\ cache'[k] = cache[k]
                     /\ OneReindexLaunched(storage)]_vars

\* a list call on a key in this step: an entry of the key captured at most
\* cacheTTL ago is returned as it is stored, with no read of the disk and no
\* change of the cache; otherwise nothing is returned from the cache, and the
\* call reads the disk: it fails, or it holds the files read (fresh) for
\* its setCache
TTLRespected(key, fresh) ==
    IF key \in DOMAIN cache /\ now - cache[key].timestamp <= cacheTTL
    THEN /\ lastRet'.hit
         /\ lastRet'.files = cache[key].files
         /\ listings' = listings
         /\ cache' = cache
    ELSE /\ lastRet' = lastRet \/ ~lastRet'.hit
         /\ \/ lastRet' # lastRet /\ lastRet'.err
            \/ /\ Len(listings') = Len(listings) + 1
               /\ listings'[Len(listings')].key = key
               /\ listings'[Len(listings')].files = fresh.files

\* the setCache of a list call that read the disk replaces the entry of its
\* key by the files read, captured now, and the call returns those files
Recaptured(i) ==
    LET l == listings[i]
    IN  /\ cache'[l.key].files = l.files
        /\ cache'[l.key].timestamp = now
        /\ lastRet'.files = l.files
        /\ ~lastRet'.hit

\* C17: a list call whose key has an entry captured at most 60 seconds ago
\* returns the stored files without reading the disk; an older entry is never
\* returned: the call reads the disk and replaces the entry, with a new
\* capture time.
C17_CacheTTL ==
    [][/\ \A storage \in CacheNames :
             /\ ListFiles(storage, "", FALSE)
                  => TTLRespected(CacheKey(storage, "", FALSE),
                                  ReadDir(Tree(storage), storage, "", FALSE))
             /\ ListAllFiles(storage, FALSE)
                  => TTLRespected(CacheKey(storage, "recursive", FALSE),
                                  [files |-> ReadDirRecursive(Tree(storage), FALSE)])
       /\ \A i \in DOMAIN listings : ListStore(i) => Recaptured(i)]_vars

C17_Witness ==
    /\ now = MaxTicks * TickSeconds
    /\ lastRet.op = "list"
    /\ ~lastRet.hit
    /\ ~lastRet.err
    /\ \E key \in DOMAIN cache : cache[key].timestamp = now /\ cache[key].files = lastRet.files
    /\ Mutations = 0

\* the files directly under the root of a tree that are project junk and not
\* hidden
RootJunkFiles(d) ==
    {e \in Children(d, ".") :
        ~e.isDir /\ ~isHiddenFile(Base(e.path)) /\ isProjectJunk(Base(e.path))}

\* C18: a listing of a storage's root, recursive or not, that returns the
\* tree as it is on disk leaves out no file for being project junk: every
\* junk file directly under the root is among the files returned.
C18_NoJunkFilterOnListing ==
    (lastRet.op = "list" /\ ~lastRet.err /\ ~lastRet.stale)
    => \A e \in RootJunkFiles(Tree(lastRet.storage)) :
           \E f \in lastRet.files : f.name = Base(e.path) /\ ~f.isDir

\* the ReindexAll of reindex request k, or a rebuild it started, is running
ReindexRunning(k) ==
    (({ReindexId(k)} \cup ReindexJobIds(ReindexId(k))) \cap DOMAIN jobs) # {}

\* C20: the Reindex handler can return its response whatever the ReindexAll it
\* started and the rebuilds of the storages have or have not done yet, and it
\* does return; the ReindexAll runs on to its end after that, every storage's
\* rebuild included.
C20_FireAndForget ==
    /\ [](lastRet.op = "reindexing" => ENABLED ReindexRespond)
    /\ (lastRet.op = "reindexing") ~> (lastRet.op = "reindex")
    /\ \A k \in 1..MaxReindexCalls :
          ReindexRunning(k) ~> ~ReindexRunning(k)

C20_Witness ==
    /\ lastRet.op = "reindex"
    /\ ReindexId(lastRet.calls) \in DOMAIN jobs
    /\ jobs[ReindexId(lastRet.calls)].pc = "start"

\* a step of the reindex goroutine i, its statement succeeding or failing
GoroutineStep(i) ==
    \/ JobStep(i)
    \/ TxFail(i)
    \/ jobs[i].pc = "deleted" /\ \E skipped \in SUBSET jobs[i].files : TxInsert(i, skipped)

\* C24: the goroutine a mutating call on a storage starts walks the mount of
\* that storage only, and no step of it adds, removes or changes a row of
\* table files whose storage column is not that storage.
C24_MutationReindexScoped ==
    [][\A i \in DOMAIN jobs :
          (jobs[i].origin = "mutation" /\ GoroutineStep(i))
          => /\ \A r \in (db \ db') \cup (db' \ db) : r.storage = jobs[i].storage
             /\ jobs[i].pc = "scan"
                  => jobs'[i].files
                       = ReadDirRecursive(disk[MountOf(jobs[i].storage)], TRUE)]_vars

C24_Witness ==
    /\ jobs = <<>>
    /\ mutCount["SSD"] > 0
    /\ RowsOf(db, "SSD") # {}
    /\ RowsOf(db, "ssd") # {}
    /\ RowsOf(db, "ssd2") # {}

\* the reindex goroutines mutating calls on the storage started, in flight
MutationJobsOf(js, storage) ==
    {i \in DOMAIN js : js[i].origin = "mutation" /\ js[i].storage = storage}

\* C26: every successful mutating call on a storage starts a new walk of the
\* storage, whatever reindex goroutines of the storage are in flight, and
\* leaves those as they are: the goroutines of one storage in flight become
\* one more (k of them at once after k calls in a burst).
C26_OverlappingReindexJobs ==
    [][\A storage \in DOMAIN mutCount :
          mutCount'[storage] = mutCount[storage] + 1
          => /\ \A i \in DOMAIN jobs : i \in DOMAIN jobs' /\ jobs'[i] = jobs[i]
             /\ \E i \in DOMAIN jobs' \ DOMAIN jobs : jobs'[i] = MutationJob(storage)
             /\ Cardinality(MutationJobsOf(jobs', storage))
                  = Cardinality(MutationJobsOf(jobs, storage)) + 1]_vars

C26_Witness ==
    /\ mutCount["ssd"] = MaxMutations
    /\ Cardinality(MutationJobsOf(jobs, "ssd")) = MaxMutations
    /\ \E i, k \in MutationJobsOf(jobs, "ssd") : jobs[i].pc = "scan" /\ jobs[k].pc = "begun"

\* the INSERT of some rows fails in this step of goroutine i
InsertFails(i) ==
    /\ jobs[i].pc = "deleted"
    /\ Len(failures') > Len(failures)
    /\ failures'[Len(failures')] = Failure("insert", jobs[i].storage)
    /\ (i \notin DOMAIN jobs' \/ jobs'[i] # jobs[i])

\* C30: a rebuild in which the INSERT of some rows fails goes on to its
\* Commit, which can be run; when it commits, the rows of the storage are the
\* rows of the entries walked other than the failed ones, and no row the
\* storage had before.
C30_RowFailuresDoNotAbort ==
    /\ [](\A i \in DOMAIN jobs :
             (jobs[i].pc = "inserted" /\ jobs[i].skipped # {}) => ENABLED TxCommit(i))
    /\ [][\A i \in DOMAIN jobs :
             /\ InsertFails(i)
                  => (i \in DOMAIN jobs' /\ jobs'[i].pc = "inserted"
                      /\ jobs'[i].skipped # {})
             /\ (jobs[i].skipped # {} /\ TxCommit(i))
                  => RowsOf(db', jobs[i].storage)
                       = IndexRows(jobs[i].storage, jobs[i].files \ jobs[i].skipped)]_vars

C30_Witness ==
    /\ failures = <<Failure("insert", "ssd")>>
    /\ PathsOf(db, "ssd") = {"a.jpg", ".h"}
    /\ \A i \in DOMAIN jobs : jobs[i].storage # "ssd"

\* C32: a mutating call that returns nil, under whatever spelling of the
\* storage's name it was issued, has removed every cache entry that a listing
\* of the same mount created, under whatever spelling that listing was issued.
C32_StorageIdentity ==
    [][(now' = now /\ listings' = listings /\ lastRet' = NoRet)
       => \A storage \in CacheNames : \A r \in MutatingCallResults(storage, CachePaths) :
             (~r.err /\ Mutate(storage, r))
             => \A k \in DOMAIN cache :
                   SameStorage(cache[k].storage, storage) => k \notin DOMAIN cache']_vars

\* C33: once no list call is between its read of the disk and its setCache,
\* no cache entry holds files that were read before a successful mutating
\* call on the entry's storage; the mutating calls counted are those issued
\* under the entry's own spelling of the name, whose invalidateStorage
\* deletes the entry's key.
C33_NoStaleRepopulation ==
    listings = <<>>
    => \A k \in DOMAIN cache :
          LET storage == cache[k].storage
          IN  (StorageKnown(storage) /\ mutCount[storage] = MountMutations(storage))
              => cache[k].epoch = MountMutations(storage)

\* C34: whenever no reindex goroutine of a storage is in flight, the
\* goroutine of the storage's last successful mutating call has committed
\* last: the rows of the storage in table files are those of a walk of the
\* mount as it is now.
C34_ReindexCommitOrder ==
    \A storage \in LiveNames :
        (mutCount[storage] > 0 /\ \A i \in DOMAIN jobs : jobs[i].storage # storage)
        => RowsOf(db, storage)
             = IndexRows(storage, ReadDirRecursive(disk[MountOf(storage)], TRUE))

\* C35: the walk of every reindex goroutine, whether a mutating call or
\* ReindexAll started it, yields for the same mount the rows the walk of a
\* goroutine of ReindexAll yields; no row lies in a hidden directory.
C35_ReindexPathsAgree ==
    [][\A i \in DOMAIN jobs :
          JobWalk(i)
          => LET storage == jobs[i].storage
                 d == disk[MountOf(storage)]
             IN  /\ IndexRows(storage, jobs'[i].files)
                      = IndexRows(storage,
                                  ReadDirRecursive(d, PassJob(storage).showHidden))
                 /\ \A f \in jobs'[i].files : ~AnyPartHidden(f.path)]_vars

\* C36: on a disk no call changes, a ListFiles served from the cache returns
\* what ReadDir of its path returns, and a ListAllFiles served from the cache
\* what ReadDirRecursive returns: neither reads the entry the other stored,
\* also for the path "recursive".
C36_CacheKeysDisjoint ==
    [][\A storage \in KeyNames :
          /\ \A path \in ListPaths :
                (ListFiles(storage, path, FALSE) /\ lastRet'.op = "list" /\ lastRet'.hit)
                => LET r == ReadDir(Tree(storage), storage, path, FALSE)
                   IN  ~r.err /\ lastRet'.files = r.files
          /\ (ListAllFiles(storage, FALSE) /\ lastRet'.op = "list" /\ lastRet'.hit)
             => lastRet'.files = ReadDirRecursive(Tree(storage), FALSE)]_vars

\* C37: after every sequence of Delete and RenameOrMove calls, whatever their
\* paths, the root directory of every mount exists.
C37_RootNeverRemoved ==
    \A m \in DOMAIN disk : Exists(disk[m], ".")

\* the source of a copy as it is when the call begins: the entry and what
\* lies below it
SourceTree(d, src) == {e \in d : e.path = src \/ IsUnder(e.path, src)}

\* the paths a step has added to the mount of a storage
CreatedPaths(storage) ==
    {e.path : e \in disk'[MountOf(storage)]} \ {e.path : e \in disk[MountOf(storage)]}

\* C38: a Copy whose paths validatePath accepts, the destination inside the
\* source included, creates no more entries than the source held when the
\* call began.
C38_CopyBounded ==
    [][\A storage \in CopyNames, srcPath \in CopyPaths, dstPath \in CopyPaths :
          (Copy(storage, srcPath, dstPath) /\ ~validatePath(storage, srcPath).err)
          => Cardinality(CreatedPaths(storage))
               <= Cardinality(SourceTree(disk[MountOf(storage)],
                                         RelOf(storage, validatePath(storage, srcPath).path)))]_vars

\* C39: two Duplicate calls on the same source of the same mount that both
\* returned nil wrote two different destinations.
C39_ConcurrentDuplicatesDistinct ==
    ret.op = "duplicates"
    => \A i, k \in DOMAIN ret.calls :
          (/\ i # k
           /\ ret.calls[i].pc = "returned" /\ ~ret.calls[i].err
           /\ ret.calls[k].pc = "returned" /\ ~ret.calls[k].err
           /\ MountOf(ret.calls[i].storage) = MountOf(ret.calls[k].storage)
           /\ ret.calls[i].srcPath = ret.calls[k].srcPath)
          => ret.calls[i].newPath # ret.calls[k].newPath

(***************************************************************************)
(* Pure functions under check: one call per behaviour, its arguments drawn *)
(* from bounded sets, recorded with its result in ret.                     *)
(***************************************************************************)
PathAlphabet == {"/", ".", "s", "2"}

RECURSIVE StringsOfLen(_)
StringsOfLen(n) ==
    IF n = 0 THEN {""}
    ELSE {s \o c : s \in StringsOfLen(n - 1), c \in PathAlphabet}

PathStrings == UNION {StringsOfLen(n) : n \in 0..MaxPathLen}

ServiceIdle ==
    UNCHANGED <<disk, now, cache, listings, db, jobs, indexer, failures,
                mutCount, lastRet>>

ValidatePathCall ==
    /\ ret = NoRet
    /\ \E storage \in ReqNames, subPath \in PathStrings :
          ret' = [op |-> "validatePath", storage |-> storage, subPath |-> subPath,
                  result |-> validatePath(storage, subPath)]
    /\ ServiceIdle

PathInit == ServiceInit /\ ret = NoRet

PathNext == ValidatePathCall

SpecPath == PathInit /\ [][PathNext]_vars

(***************************************************************************)
(* Claims about path validation.                                           *)
(***************************************************************************)
\* the lexically cleaned join of the mount root of a request with its subPath
CleanedJoin(storage, subPath) ==
    Clean(getStorageRoot(storage).path \o "/" \o subPath)

\* p is the root or lies below it
InsideRoot(root, p) == p = root \/ HasPrefix(p, root \o "/")

\* C2: for a configured storage, a subPath whose cleaned join with the mount
\* root lies outside the root makes validatePath return an error and no path.
C2_PathEscapeRejected ==
    (/\ ret.op = "validatePath"
     /\ StorageKnown(ret.storage)
     /\ ~InsideRoot(getStorageRoot(ret.storage).path,
                    CleanedJoin(ret.storage, ret.subPath)))
    => (ret.result.err /\ ret.result.path = "")

C2_Witness ==
    /\ ret.op = "validatePath"
    /\ ret.storage = "ssd"
    /\ ret.subPath = "../s2"
    /\ CleanedJoin(ret.storage, ret.subPath) = "/m/s2"
    /\ ret.result.err

\* C3: for a configured storage, a subPath whose cleaned join stays within the
\* mount root is accepted, and the path returned is the root or below it.
C3_InRootAccepted ==
    (/\ ret.op = "validatePath"
     /\ StorageKnown(ret.storage)
     /\ InsideRoot(getStorageRoot(ret.storage).path,
                   CleanedJoin(ret.storage, ret.subPath)))
    => (/\ ~ret.result.err
        /\ InsideRoot(getStorageRoot(ret.storage).path, ret.result.path))

(***************************************************************************)
(* Search and stats calls on an index a run of the process can have        *)
(* written: every row is IndexRow of a FileInfo.                           *)
(***************************************************************************)
\* the clock of the search calls: late enough for every day filter
SearchNow == 3 * SecondsPerDay

SearchFiles ==
    {[storage |-> "ssd", f |-> FileInfo("a.jpg", "a.jpg", FALSE, SearchNow)],
     [storage |-> "ssd", f |-> FileInfo("b.JPG", "d/b.JPG", FALSE, SearchNow - SecondsPerDay)],
     [storage |-> "ssd", f |-> FileInfo("g.jpg", "d/g.jpg", FALSE, SearchNow - SecondsPerDay)],
     [storage |-> "ssd", f |-> FileInfo("c.txt", "c.txt", FALSE, SearchNow - 2 * SecondsPerDay)],
     [storage |-> "ssd", f |-> FileInfo(".e.jpg", ".e.jpg", FALSE, SearchNow)],
     [storage |-> "ssd", f |-> FileInfo("d", "d", TRUE, SearchNow)],
     [storage |-> "ssd2", f |-> FileInfo("f.jpg", "f.jpg", FALSE, SearchNow)]}

SearchRowSets == {{IndexRow(x.storage, x.f) : x \in S} : S \in SUBSET SearchFiles}

ExtLists == {<<>>, <<"jpg">>, <<"JPG">>, <<"txt">>, <<"jpg", "txt">>}

StatsRequests ==
    {[photos |-> <<"jpg">>, docs |-> <<"txt">>, others |-> <<>>],
     [photos |-> <<"jpg">>, misc |-> <<>>, others |-> <<>>],
     [photos |-> <<"JPG">>, others |-> <<>>],
     [photos |-> <<"jpg">>, media |-> <<"jpg", "txt">>, others |-> <<>>],
     [photos |-> <<"jpg">>, docs |-> <<"txt">>]}

SearchInit ==
    /\ disk = InitDisk
    /\ now = SearchNow
    /\ cache = <<>>
    /\ listings = <<>>
    /\ db \in SearchRowSets
    /\ jobs = <<>>
    /\ indexer = "start"
    /\ failures = <<>>
    /\ mutCount = [n \in KnownNames |-> 0]
    /\ lastRet = NoRet
    /\ ret = NoRet

\* GET /api/search
SearchCall ==
    /\ ret = NoRet
    /\ \E storage \in {"ssd", "ssd2"}, extensions \in ExtLists,
          limit \in (-1)..MaxLimit, offset \in (-1)..MaxOffset, days \in 0..MaxDays :
          \E ord \in ModifiedDescOrders(SearchMatches(db, storage, extensions, days, now)) :
             ret' = [op |-> "search", storage |-> storage, extensions |-> extensions,
                     limit |-> limit, offset |-> offset, days |-> days,
                     result |-> SearchIndexedFiles(db, storage, extensions, limit,
                                                   offset, days, now, ord)]
    /\ ServiceIdle

\* POST /api/stats
StatsCall ==
    /\ ret = NoRet
    /\ \E storage \in {"ssd", "ssd2"}, req \in StatsRequests :
          ret' = [op |-> "stats", storage |-> storage, req |-> req,
                  result |-> GetStats(db, storage, req, now)]
    /\ ServiceIdle

SearchNext == SearchCall \/ StatsCall

SpecSearch == SearchInit /\ [][SearchNext]_vars

(***************************************************************************)
(* Claims about search and stats.                                          *)
(***************************************************************************)
\* the rows of the index that satisfy the predicate of the call in ret
RetMatches == SearchMatches(db, ret.storage, ret.extensions, ret.days, now)

\* C4: the total a search returns is the number of rows that satisfy the
\* predicate, whatever limit and offset are.
C4_TotalIndependentOfPaging ==
    ret.op = "search" => ret.result.total = Cardinality(RetMatches)

\* C5: with limit > 0 (and an offset that is not negative) the page is the
\* slice [offset, offset+limit) of the matches in descending order of
\* modification time: min(limit, max(0, total - offset)) rows; the total is
\* the number of matches.
C5_Pagination ==
    (ret.op = "search" /\ ret.limit > 0 /\ ret.offset >= 0)
    => LET page == ret.result.files
           total == Cardinality(RetMatches)
       IN  /\ ret.result.total = total
           /\ Len(page) = Min(ret.limit, Max(0, total - ret.offset))
           /\ \E ord \in ModifiedDescOrders(RetMatches) :
                 page = SubSeq(ord, ret.offset + 1, ret.offset + Len(page))

C5_Witness ==
    /\ ret.op = "search"
    /\ ret.extensions = <<"jpg">>
    /\ ret.limit = 1
    /\ ret.offset = 1
    /\ ret.result.total = 3
    /\ Len(ret.result.files) = 1

\* the extension lists of the named groups are pairwise disjoint
DisjointGroups(req) ==
    \A c1, c2 \in DOMAIN req \ {"others"} :
        c1 # c2 => ExtArgs(req[c1]) \cap ExtArgs(req[c2]) = {}

\* the files of the storage a search can return: not directories, not hidden
NonHiddenFileRows(rows, storage) ==
    {r \in RowsOf(rows, storage) :
        ~r.is_dir /\ Head(r.name) \notin {".", "$", "~"}}

\* C10: for pairwise disjoint named groups and a requested "others", the
\* counts of the named groups plus others equal the number of non-hidden
\* indexed files of the storage, and others is not negative.
C10_StatsAdditivity ==
    (ret.op = "stats" /\ "others" \in DOMAIN ret.req /\ DisjointGroups(ret.req))
    => /\ SumOver(ret.result, DOMAIN ret.req)
            = Cardinality(NonHiddenFileRows(db, ret.storage))
       /\ ret.result["others"] >= 0

\* the row belongs to the storage of the search in ret, is a file, has a name
\* that starts with none of . $ ~, has one of the requested extensions (letter
\* case apart) when any is requested, and was modified less than ret.days
\* days ago when ret.days > 0
Searched(r) ==
    /\ r.storage = ret.storage
    /\ r.is_dir = FALSE
    /\ (Len(r.name) > 0 => SubSeq(r.name, 1, 1) \notin {".", "$", "~"})
    /\ \/ ret.extensions = <<>>
       \/ \E i \in DOMAIN ret.extensions :
             ToLower(ret.extensions[i]) = ToLower(r.extension)
    /\ (ret.days > 0 => now - r.modified < ret.days * SecondsPerDay)

\* C19: every entry of a search page is a row of the index that satisfies the
\* search predicate (storage, file, name not starting with . $ ~, extension,
\* days), and total counts exactly the rows that satisfy it: none more, and
\* none of them left out.
C19_SearchPredicate ==
    ret.op = "search"
    => /\ \A i \in DOMAIN ret.result.files :
             ret.result.files[i] \in db /\ Searched(ret.result.files[i])
       /\ ret.result.total = Cardinality({r \in db : Searched(r)})

\* the non-hidden files of the storage whose extension is one of a list's,
\* compared without regard to case
FilesWithExtIn(rows, storage, extensions) ==
    {r \in NonHiddenFileRows(rows, storage) : r.extension \in ExtArgs(extensions)}

\* C11: the count a stats call returns for a named group is the number of
\* indexed non-hidden files of the storage, directories left out, whose
\* extension is in the group's list; a group with an empty list counts 0.
C11_PerGroupStats ==
    ret.op = "stats"
    => \A c \in DOMAIN ret.req \ {"others"} :
          ret.result[c] = Cardinality(FilesWithExtIn(db, ret.storage, ret.req[c]))

(***************************************************************************)
(* One call of LocalDriver.ReadDir with its worker pool.  ret is the call: *)
(* its arguments, what os.ReadDir returned, the two channels and the       *)
(* goroutines' positions.  The workers run the same code and keep nothing  *)
(* between two entries, so the pool is the set of entries workers hold and *)
(* the number of workers that have returned.  jobs and results have room   *)
(* for len(entries) values, so no send on them blocks.  files is kept as   *)
(* the set of the values appended and their number.                       *)
(***************************************************************************)
maxWorkers == 16

\* entries of the largest directory listed
MaxEntries == 17
\* entries received before it and still held that a worker's send overtakes
MaxOvertaken == 2
\* results waiting in the channel when the collector is next scheduled
MaxWaiting == 2

\* the file names f1 .. fn
PoolFileName(i) == "f" \o ToString(i) \o ".jpg"

PoolTrees ==
    {{Entry(".", TRUE, 0)},
     {Entry(".", TRUE, 0), Entry("a.jpg", FALSE, 0), Entry(".h", FALSE, 0),
      Entry("d", TRUE, 0), Entry("d/n.go", FALSE, 0)},
     {Entry(".", TRUE, 0), Entry(".h", FALSE, 0)}
        \cup {Entry(PoolFileName(i), FALSE, 0) : i \in 1..(MaxEntries - 1)}}

\* the entries whose entry.Info() fails: removed since os.ReadDir read them
PoolGone == {{}, {"a.jpg"}}

RECURSIVE SetToSeq(_)
SetToSeq(S) ==
    IF S = {} THEN <<>>
    ELSE LET x == CHOOSE y \in S : TRUE IN <<x>> \o SetToSeq(S \ {x})

\* the fileResult of a worker that skips hidden names whatever showHidden is
fileResultHidingAlways(e, subPath, showHidden, infoFails) ==
    LET name == Base(e.path)
    IN  IF isHiddenFile(name) THEN [err |-> TRUE]
        ELSE IF infoFails THEN [err |-> TRUE]
        ELSE [err |-> FALSE, info |-> FileInfo(name, Join(subPath, name), e.isDir, e.mtime)]

\* the fileResult a worker sends for one entry
fileResult(e, subPath, showHidden, infoFails) ==
    LET name == Base(e.path)
    IN  IF ~showHidden /\ isHiddenFile(name) THEN [err |-> TRUE]
        ELSE IF infoFails THEN [err |-> TRUE]
        ELSE [err |-> FALSE, info |-> FileInfo(name, Join(subPath, name), e.isDir, e.mtime)]

PoolInit ==
    /\ ServiceInit
    /\ ret = NoRet

\* ReadDir up to the start of the workers: validatePath, os.ReadDir, make
ReadDirStart ==
    /\ ret = NoRet
    /\ \E tree \in PoolTrees, storageName \in {"ssd", "usb"}, subPath \in {"", "d", "a.jpg"},
          showHidden \in BOOLEAN, gone \in PoolGone :
          LET v == validatePath(storageName, subPath)
              rel == RelOf(storageName, v.path)
              entries == SetToSeq(Children(tree, rel))
              call == [op |-> "ReadDir", tree |-> tree, storageName |-> storageName,
                       subPath |-> subPath, showHidden |-> showHidden]
          IN  IF v.err \/ ~IsDirAt(tree, rel)
              THEN ret' = [call EXCEPT !.op = "ReadDirError"]
              ELSE ret' = [op |-> "ReadDir", tree |-> tree, storageName |-> storageName,
                           subPath |-> subPath, showHidden |-> showHidden,
                           entries |-> entries,
                           gone |-> {i \in 1..Len(entries) : Base(entries[i].path) \in gone},
                           sent |-> 0, jobsClosed |-> FALSE, received |-> 0,
                           held |-> {}, returned |-> 0, results |-> <<>>,
                           resultsClosed |-> FALSE, files |-> {}, appended |-> 0,
                           pc |-> "collect"]
    /\ ServiceIdle

PoolRunning == ret.op = "ReadDir" /\ ret.pc = "collect"

\* workers that neither hold an entry nor have returned
IdleWorkers == maxWorkers - Cardinality(ret.held) - ret.returned

\* jobs <- entry
Dispatch ==
    /\ PoolRunning
    /\ ret.sent < Len(ret.entries)
    /\ ret' = [ret EXCEPT !.sent = @ + 1]
    /\ ServiceIdle

\* a ReadDir that never closes jobs
CloseJobsForgotten == FALSE /\ UNCHANGED vars

\* close(jobs)
CloseJobs ==
    /\ PoolRunning
    /\ ret.sent = Len(ret.entries)
    /\ ~ret.jobsClosed
    /\ ret' = [ret EXCEPT !.jobsClosed = TRUE]
    /\ ServiceIdle

\* a worker's range over jobs yields the next entry
WorkerReceive ==
    /\ PoolRunning
    /\ IdleWorkers > 0
    /\ ret.received < ret.sent
    /\ ret' = [ret EXCEPT !.received = @ + 1, !.held = @ \cup {ret.received + 1}]
    /\ ServiceIdle

\* results <- fileResult{...} of the worker that holds entry i
WorkerSend(i) ==
    /\ PoolRunning
    /\ i \in ret.held
    /\ Cardinality({j \in ret.held : j < i}) <= MaxOvertaken
    /\ Len(ret.results) < MaxWaiting
    /\ ret' = [ret EXCEPT !.held = @ \ {i},
                          !.results = Append(@, fileResult(ret.entries[i], ret.subPath,
                                                           ret.showHidden, i \in ret.gone))]
    /\ ServiceIdle

\* the collector's range over results yields a result
Collect ==
    /\ PoolRunning
    /\ ret.results # <<>>
    /\ ret' = IF Head(ret.results).err THEN [ret EXCEPT !.results = Tail(@)]
               ELSE [ret EXCEPT !.results = Tail(@),
                                !.files = @ \cup {Head(ret.results).info},
                                !.appended = @ + 1]
    /\ ServiceIdle

\* a worker's range over jobs ends: jobs is closed and empty
WorkerReturn ==
    /\ PoolRunning
    /\ IdleWorkers > 0
    /\ ret.jobsClosed
    /\ ret.received = ret.sent
    /\ ret' = [ret EXCEPT !.returned = @ + 1]
    /\ ServiceIdle

\* wg.Wait() returning as soon as one worker has called wg.Done()
WaitReturnsAfterOneWorker == ret.returned >= 1

\* wg.Wait() returns: every worker has called wg.Done()
WaitReturns == ret.returned = maxWorkers

\* the closing goroutine: wg.Wait(), close(results)
CloseResults ==
    /\ PoolRunning
    /\ WaitReturns
    /\ ~ret.resultsClosed
    /\ ret' = [ret EXCEPT !.resultsClosed = TRUE]
    /\ ServiceIdle

\* the collector's range over results ends and ReadDir returns files
ReadDirReturn ==
    /\ PoolRunning
    /\ ret.resultsClosed
    /\ ret.results = <<>>
    /\ ret' = [ret EXCEPT !.pc = "returned"]
    /\ ServiceIdle

PoolNext ==
    \/ ReadDirStart
    \/ Dispatch
    \/ CloseJobs
    \/ WorkerReceive
    \/ \E i \in 1..MaxEntries : WorkerSend(i)
    \/ Collect
    \/ WorkerReturn
    \/ CloseResults
    \/ ReadDirReturn

SpecPool == PoolInit /\ [][PoolNext]_vars

\* some goroutine of the running ReadDir is not blocked: the dispatcher, a
\* worker, the closing goroutine or the collector can take its next step
PoolCanStep ==
    \/ ENABLED Dispatch
    \/ ENABLED CloseJobs
    \/ ENABLED WorkerReceive
    \/ ENABLED Collect
    \/ ENABLED WorkerReturn
    \/ ENABLED CloseResults
    \/ ENABLED ReadDirReturn
    \/ \E i \in ret.held : ENABLED WorkerSend(i)

(***************************************************************************)
(* Claims about the worker pool of ReadDir.                                *)
(***************************************************************************)
\* what listing the directory of the call in ret one entry after the other
\* gives: the entries the hidden filter lets through and whose Info succeeds
SerialFiles ==
    {f \in ReadDir(ret.tree, ret.storageName, ret.subPath, ret.showHidden).files :
        f.name \notin {Base(ret.entries[i].path) : i \in ret.gone}}

\* C12: the files ReadDir returns are, as a set, the files that filtering and
\* stat-ing each entry serially gives, each appended once: no entry is lost or
\* invented, whatever the number of entries and showHidden are.
C12_ListingEquivalence ==
    (ret.op = "ReadDir" /\ ret.pc = "returned")
    => /\ ret.files = SerialFiles
       /\ ret.appended = Cardinality(SerialFiles)

C12_Witness ==
    /\ ret.op = "ReadDir"
    /\ ret.pc = "returned"
    /\ Len(ret.entries) > maxWorkers
    /\ ~ret.showHidden
    /\ ret.appended = Len(ret.entries) - 1

\* the entries os.ReadDir gave whose Info succeeds and which the call is to
\* show: all of them with showHidden, those with a name that is not hidden
\* without
VisibleEntries ==
    {ret.entries[i] : i \in {k \in 1..Len(ret.entries) :
        /\ k \notin ret.gone
        /\ ret.showHidden \/ ~isHiddenFile(Base(ret.entries[k].path))}}

\* C28: a ReadDir that listed the directory returns, without an error, one
\* file for each entry whose stat succeeds and, when showHidden is false,
\* whose name is not hidden, and nothing else; an entry whose stat fails is
\* left out.
C28_ListingVisibility ==
    (ret.op = "ReadDir" /\ ret.pc = "returned")
    => /\ {[name |-> f.name, isDir |-> f.isDir] : f \in ret.files}
            = {[name |-> Base(e.path), isDir |-> e.isDir] : e \in VisibleEntries}
       /\ ret.appended = Cardinality(VisibleEntries)

C28_Witness ==
    /\ ret.op = "ReadDir"
    /\ ret.pc = "returned"
    /\ ret.showHidden
    /\ ret.gone # {}
    /\ {f.name : f \in ret.files} = {".h", "d"}

\* messages sent on results so far: one by each worker that received an entry
\* and holds it no more
ResultsSent == ret.received - Cardinality(ret.held)

\* the steps a running ReadDir has yet to take: dispatches, the close of jobs,
\* receives, sends and collects of the entries, returns of the workers, the
\* close of results and the return
StepsLeft ==
    IF ~PoolRunning THEN 0
    ELSE (Len(ret.entries) - ret.sent)
         + (IF ret.jobsClosed THEN 0 ELSE 1)
         + 3 * (Len(ret.entries) - ret.received)
         + 2 * Cardinality(ret.held)
         + Len(ret.results)
         + (maxWorkers - ret.returned)
         + (IF ret.resultsClosed THEN 0 ELSE 1)
         + 1

DupTrees ==
    {InitDisk["ssd"],
     {Entry(".", TRUE, 0), Entry("docs", TRUE, 0), Entry("docs/report.txt", FALSE, 0),
      Entry("docs/report_copy.txt", FALSE, 0)},
     {Entry(".", TRUE, 0), Entry("a.jpg", FALSE, 0), Entry("a_copy.jpg", FALSE, 0),
      Entry("a_copy_1.jpg", TRUE, 0), Entry("d", TRUE, 0), Entry("d/n.go", FALSE, 0),
      Entry("d_copy", FALSE, 0)}}

DupNames == {"ssd", "SSD", "usb"}

DupPaths == {"a.jpg", "d", "/docs/report.txt", ".h", "d/n.go", "d/../../x"}

DupInit ==
    /\ disk \in {[InitDisk EXCEPT !["ssd"] = tree] : tree \in DupTrees}
    /\ now = 0
    /\ cache = <<>>
    /\ listings = <<>>
    /\ db = InitDb
    /\ jobs = <<>>
    /\ indexer = "start"
    /\ failures = <<>>
    /\ mutCount = [n \in KnownNames |-> 0]
    /\ lastRet = NoRet
    /\ ret = NoRet

DupNext ==
    \/ \E storage \in DupNames, srcPath \in DupPaths : Duplicate(storage, srcPath)
    \/ \E storage \in DupNames : UploadFile(storage, "a_copy.jpg")
    \/ \E storage \in DupNames : Delete(storage, "a_copy.jpg")
    \/ Tick

SpecDuplicate == DupInit /\ [][DupNext]_vars

(***************************************************************************)
(* Claims about Duplicate.                                                 *)
(***************************************************************************)
\* the k-th name of the sequence name_copy.ext, name_copy_1.ext, ... in the
\* directory of the entry at rel
CopyName(rel, k) ==
    LET base == Base(rel)
        ext == Ext(base)
        name == SubSeq(base, 1, Len(base) - Len(ext))
        copy == IF k = 0 THEN "_copy" ELSE "_copy_" \o ToString(k)
    IN  IF Dir(rel) = "." THEN name \o copy \o ext
        ELSE Dir(rel) \o "/" \o name \o copy \o ext

\* the first name of the sequence that no entry of the tree has
FirstFreeCopyName(d, rel) ==
    CopyName(rel, CHOOSE k \in 0..Cardinality(d) :
                      /\ ~Exists(d, CopyName(rel, k))
                      /\ \A j \in 0..(k - 1) : Exists(d, CopyName(rel, j)))

\* Duplicate(storage, srcPath) returns nil in this step
Duplicated(storage, srcPath) ==
    /\ StorageKnown(storage)
    /\ mutCount'[storage] # mutCount[storage]
    /\ Duplicate(storage, srcPath)

\* C13: a Duplicate that succeeds copies the entry to the first of
\* name_copy.ext, name_copy_1.ext, ... in the same directory that did not
\* exist: the entries the mount had are all still there unchanged, and what
\* is new is that path and, for a directory, what lies below it.
C13_DuplicateNaming ==
    [][\A storage \in DupNames, srcPath \in DupPaths :
          Duplicated(storage, srcPath)
          => \E target \in {FirstFreeCopyName(Tree(storage),
                                   RelOf(storage, validatePath(storage, srcPath).path))} :
                LET d == Tree(storage)
                    after == disk'[MountOf(storage)]
                IN  /\ d \subseteq after
                    /\ Exists(after, target)
                    /\ \A e \in after \ d : e.path = target \/ IsUnder(e.path, target)]_vars

C13_Witness ==
    /\ Exists(disk["ssd"], "docs/report.txt")
    /\ Exists(disk["ssd"], "docs/report_copy.txt")
    /\ Exists(disk["ssd"], "docs/report_copy_1.txt")
    /\ ~Exists(disk["ssd"], "docs/report_copy_2.txt")
    /\ Mutations = 1

(***************************************************************************)
(* One call of a LocalDriver operation that takes a path, recorded in ret  *)
(* with the functions of package os the call reaches.                      *)
(***************************************************************************)
DriverOps == {"ReadDir", "CreateFolder", "SaveFile", "GetFile", "Rename", "Delete",
              "Copy", "IsDir"}

DriverNames == {"ssd", "SSD", "usb"}

DriverPaths == {"a.jpg", "d/n.go", "..", "../s2/c.jpg", "d/../../x"}

\* an operation of one path: it returns the error of validatePath before it
\* calls into package os
OnePathOs(storageName, subPath, calls) ==
    IF validatePath(storageName, subPath).err THEN {} ELSE calls

\* an operation of two paths that validates only the first of them
TwoPathOsFirstOnly(storageName, path, other, calls) ==
    IF validatePath(storageName, path).err THEN {} ELSE calls

\* Rename and Copy: the error of either validatePath is returned before the
\* operation calls into package os
TwoPathOs(storageName, path, other, calls) ==
    IF validatePath(storageName, path).err THEN {}
    ELSE IF validatePath(storageName, other).err THEN {}
    ELSE calls

\* the functions of package os a driver operation reaches
DriverOsCalls(name, storageName, path, other) ==
    CASE name = "ReadDir" -> OnePathOs(storageName, path, {"os.ReadDir"})
      [] name = "CreateFolder" -> OnePathOs(storageName, path, {"os.MkdirAll"})
      [] name = "SaveFile" -> OnePathOs(storageName, path, {"os.MkdirAll", "os.Create"})
      [] name = "GetFile" -> OnePathOs(storageName, path, {"os.Open"})
      [] name = "Rename" -> TwoPathOs(storageName, path, other, {"os.Rename"})
      [] name = "Delete" -> OnePathOs(storageName, path, {"os.RemoveAll"})
      [] name = "Copy" -> TwoPathOs(storageName, path, other, {"os.Stat"})
      [] name = "IsDir" -> OnePathOs(storageName, path, {"os.Stat"})

\* LocalDriver.GetFile: os.Open of the validated path
DriverGetFile(d, storageName, subPath) ==
    LET v == validatePath(storageName, subPath)
    IN  IF v.err THEN [err |-> TRUE, d |-> d]
        ELSE [err |-> ~Exists(d, RelOf(storageName, v.path)), d |-> d]

\* LocalDriver.IsDir: os.Stat of the validated path
DriverIsDir(d, storageName, subPath) ==
    LET v == validatePath(storageName, subPath)
    IN  IF v.err THEN [err |-> TRUE, d |-> d]
        ELSE [err |-> ~Exists(d, RelOf(storageName, v.path)), d |-> d]

\* what a driver operation returns and leaves of the tree: [err, d]
DriverResult(name, d, storageName, path, other, t) ==
    CASE name = "ReadDir" -> [err |-> ReadDir(d, storageName, path, FALSE).err, d |-> d]
      [] name = "CreateFolder" -> DriverCreateFolder(d, storageName, path, t)
      [] name = "SaveFile" -> DriverSaveFile(d, storageName, path, t)
      [] name = "GetFile" -> DriverGetFile(d, storageName, path)
      [] name = "Rename" -> DriverRename(d, storageName, path, other)
      [] name = "Delete" -> DriverDelete(d, storageName, path)
      [] name = "Copy" -> DriverCopy(d, storageName, path, other, t)
      [] name = "IsDir" -> DriverIsDir(d, storageName, path)

DriverCall ==
    /\ ret = NoRet
    /\ \E name \in DriverOps, storageName \in DriverNames, path \in DriverPaths,
          other \in DriverPaths :
          \E r \in {DriverResult(name, Tree(storageName), storageName, path, other, now)} :
             /\ disk' = IF StorageKnown(storageName)
                        THEN [disk EXCEPT ![MountOf(storageName)] = r.d] ELSE disk
             /\ ret' = [op |-> "driver", name |-> name, storageName |-> storageName,
                        path |-> path, other |-> other, err |-> r.err, before |-> disk,
                        os |-> DriverOsCalls(name, storageName, path, other)]
    /\ UNCHANGED <<now, cache, listings, db, jobs, indexer, failures, mutCount, lastRet>>

DriverInit == ServiceInit /\ ret = NoRet

DriverNext == DriverCall

SpecDriver == DriverInit /\ [][DriverNext]_vars

(***************************************************************************)
(* Claims about the driver operations.                                     *)
(***************************************************************************)
\* the resolution of a path of the call fails: of its path, or, for the
\* operations of two paths, of its other path
ResolutionFails(name, storageName, path, other) ==
    \/ validatePath(storageName, path).err
    \/ name \in {"Rename", "Copy"} /\ validatePath(storageName, other).err

\* C15: a driver operation whose path resolution fails returns an error,
\* calls no function of package os and leaves every mount as it was; for
\* Rename and Copy the failing resolution may be that of either path.
C15_NoAccessOnFailedResolution ==
    (ret.op = "driver" /\ ResolutionFails(ret.name, ret.storageName, ret.path, ret.other))
    => /\ ret.err
       /\ ret.os = {}
       /\ disk = ret.before

C15_Witness ==
    /\ ret.op = "driver"
    /\ ret.name = "Rename"
    /\ ret.storageName = "ssd"
    /\ ret.path = "a.jpg"
    /\ ret.other = "../s2/c.jpg"
    /\ ret.err
    /\ Exists(disk["ssd"], "a.jpg")

(***************************************************************************)
(* The index while files are rewritten at later times: uploads and         *)
(* deletions of one file with the clock advancing, the initial scan and    *)
(* the rebuilds the uploads start overlapping, every statement succeeding. *)
(***************************************************************************)
UniqueNames == {"ssd"}

UniqueNext ==
    \/ InitialScan \/ PassDone
    \/ RebuildNext
    \/ \E storage \in UniqueNames : UploadFile(storage, "a.jpg")
    \/ \E storage \in UniqueNames : Delete(storage, "a.jpg")
    \/ Tick

SpecUnique == Init /\ [][UniqueNext]_vars

\* two reindex jobs of one storage name are in flight, both past their walk
OverlappingJobs ==
    \E i, k \in DOMAIN jobs :
        /\ i # k
        /\ jobs[i].storage = jobs[k].storage
        /\ jobs[i].pc # "scan"
        /\ jobs[k].pc # "scan"

\* C21: table files never holds two rows with the same storage and path,
\* whatever reindex jobs of the storage overlap.
C21_IndexUniqueness ==
    \A r1, r2 \in db : (r1.storage = r2.storage /\ r1.path = r2.path) => r1 = r2

C21_Witness ==
    /\ OverlappingJobs
    /\ \E i, k \in DOMAIN jobs :
          /\ jobs[i].storage = "ssd"
          /\ jobs[k].storage = "ssd"
          /\ jobs[i].files # jobs[k].files
    /\ \E r \in db : r.storage = "ssd" /\ r.path = "a.jpg" /\ r.modified > 0

(***************************************************************************)
(* StartIndexing with its ticker and the goroutines of its passes, with no *)
(* request made and every statement succeeding.                            *)
(***************************************************************************)
StartNext ==
    \/ InitialScan \/ PassDone \/ TickerFire
    \/ TickBuffered \/ PassDoneTick
    \/ RebuildNext

\* the scheduler runs StartIndexing and every goroutine that can run, and the
\* ticker keeps firing
StartFairness ==
    /\ WF_vars(InitialScan)
    /\ WF_vars(PassDone)
    /\ WF_vars(PassDoneTick)
    /\ WF_vars(TickerFire)
    /\ \A i \in PassIds : []<>JobPending(i) => []<><<JobStep(i)>>_vars

SpecStart == Init /\ [][StartNext]_vars /\ StartFairness

\* StartIndexing receives a tick from ticker.C and calls ReindexAll
TickReceived == TickerFire \/ PassDoneTick

\* ReindexAll has started one goroutine per configured storage
AllStoragesStarted ==
    \A i \in 1..Len(MountSeq) :
        PassId(i) \in DOMAIN jobs' /\ jobs'[PassId(i)] = PassJob(MountSeq[i])

\* the goroutine of the running or last pass for the i-th storage has ended
PassJobEnded(i) == indexer # "start" /\ PassId(i) \notin DOMAIN jobs

\* the goroutine of a pass ends in this step, leaving its storage with the
\* rows of a walk of the mount as it is
PassJobCommits(i) ==
    (PassId(i) \in DOMAIN jobs /\ PassId(i) \notin DOMAIN jobs')
    => RowsOf(db', MountSeq[i])
         = IndexRows(MountSeq[i], ReadDirRecursive(disk[MountOf(MountSeq[i])], FALSE))

\* a pass has just been started: one goroutine per storage, none yet run
PassJustStarted ==
    /\ indexer = "pass"
    /\ \A i \in 1..Len(MountSeq) :
          PassId(i) \in DOMAIN jobs /\ jobs[PassId(i)] = PassJob(MountSeq[i])

\* C22: with no request made, the rebuild of every configured storage commits
\* at least once after the start of the process; every tick StartIndexing
\* receives starts a reindex of all storages, a tick that waits in ticker.C
\* is received, and ticks are received again and again without end.
C22_StartupAndPeriodicIndexing ==
    /\ \A i \in 1..Len(MountSeq) : <>PassJobEnded(i)
    /\ [][/\ \A i \in 1..Len(MountSeq) : PassJobCommits(i)
          /\ (InitialScan \/ TickReceived) => AllStoragesStarted]_vars
    /\ (indexer = "passTick") ~> PassJustStarted
    /\ []<><<TickReceived>>_vars

C22_Witness ==
    /\ indexer = "pass"
    /\ RebuiltBefore("ssd")
    /\ \A i \in PassIds : i \in DOMAIN jobs /\ jobs[i].pc = "scan"
    /\ lastRet = NoRet
    /\ Mutations = 0

(***************************************************************************)
(* The initial pass on mounts of which one may have no root directory (the *)
(* drive is not mounted): filepath.Walk hands the failed Lstat of the root *)
(* to the callback, which returns nil for every error, so the walk ends    *)
(* with no entry and no error.  The only error ReadDirRecursive returns is *)
(* getStorageRoot's, which no name of ListStorages runs into.              *)
(***************************************************************************)
\* the trees of a mount that is not there
ScanDisks == {InitDisk, [InitDisk EXCEPT !["ssd2"] = {}]}

ScanInit ==
    /\ disk \in ScanDisks
    /\ now = 0
    /\ cache = <<>>
    /\ listings = <<>>
    /\ db = InitDb
    /\ jobs = <<>>
    /\ indexer = "start"
    /\ failures = <<>>
    /\ mutCount = [n \in KnownNames |-> 0]
    /\ lastRet = NoRet
    /\ ret = NoRet

ScanNext ==
    \/ InitialScan \/ PassDone
    \/ RebuildNext
    \/ FaultNext

SpecScan == ScanInit /\ [][ScanNext]_vars

\* the root directory of the mount cannot be read: a scan of it fails
ScanFails(m) == ~Exists(disk[m], ".")

\* C23: the pass returns only when the goroutine of every storage has ended;
\* a storage whose scan fails keeps the rows it has, whatever the goroutines
\* of the pass do.
C23_PassWaitsAndIsolatesFailures ==
    [][/\ PassDone => (DOMAIN jobs \cap PassIds = {})
       /\ \A m \in MountNames :
             ScanFails(m) => RowsOf(db', m) = RowsOf(db, m)]_vars

(***************************************************************************)
(* invalidateStorage on a cache list calls have filled: any of the entries *)
(* of the storage names, single-level and recursive, with and without      *)
(* hidden files.                                                           *)
(***************************************************************************)
InvalidateNames == {"ssd", "ssd2", "SSD"}

\* the entry a list call at time 0 stores under the key
FilledEntry(storage, path, showHidden) ==
    [files |-> IF path = "recursive"
               THEN ReadDirRecursive(InitDisk[MountOf(storage)], showHidden)
               ELSE ReadDir(InitDisk[MountOf(storage)], storage, path, showHidden).files,
     timestamp |-> 0, storage |-> storage, epoch |-> 0]

FilledKeys ==
    {<<storage, path, showHidden>> :
        storage \in InvalidateNames, path \in ListPaths, showHidden \in BOOLEAN}

\* the cache holding the entries of the keys in S
FilledCache(S) ==
    [k \in {CacheKey(x[1], x[2], x[3]) : x \in S} |->
        LET x == CHOOSE y \in S : CacheKey(y[1], y[2], y[3]) = k
        IN  FilledEntry(x[1], x[2], x[3])]

InvalidateInit ==
    /\ disk = InitDisk
    /\ now = 0
    /\ \E S \in SUBSET FilledKeys : cache = FilledCache(S)
    /\ listings = <<>>
    /\ db = InitDb
    /\ jobs = <<>>
    /\ indexer = "start"
    /\ failures = <<>>
    /\ mutCount = [n \in KnownNames |-> 0]
    /\ lastRet = NoRet
    /\ ret = NoRet

\* one call of invalidateStorage
InvalidateCall(storage) ==
    /\ ret = NoRet
    /\ invalidateStorage(storage)
    /\ ret' = [op |-> "invalidateStorage", storage |-> storage, before |-> cache]
    /\ UNCHANGED <<disk, now, listings, db, indexer, failures, mutCount, lastRet>>

InvalidateNext == \E storage \in InvalidateNames : InvalidateCall(storage)

SpecInvalidate == InvalidateInit /\ [][InvalidateNext]_vars

\* C25: after invalidateStorage(S) no entry is left under a key made from S
\* (single-level or recursive, with or without hidden files), and every entry
\* under a key made from another storage name is there as it was, the names
\* of which S is a prefix included.
C25_InvalidationPerStorage ==
    ret.op = "invalidateStorage"
    => /\ DOMAIN cache \subseteq DOMAIN ret.before
       /\ \A x \in FilledKeys :
             LET k == CacheKey(x[1], x[2], x[3])
             IN  IF x[1] = ret.storage THEN k \notin DOMAIN cache
                 ELSE k \in DOMAIN ret.before
                        => (k \in DOMAIN cache /\ cache[k] = ret.before[k])

C25_Witness ==
    /\ ret.op = "invalidateStorage"
    /\ ret.storage = "ssd"
    /\ DOMAIN ret.before = {CacheKey(x[1], x[2], x[3]) : x \in FilledKeys}
    /\ DOMAIN cache
         = {CacheKey(x[1], x[2], x[3]) : x \in {y \in FilledKeys : y[1] # "ssd"}}

(***************************************************************************)
(* ReadDirRecursive on the trees a mount can hold: a call per behaviour.   *)
(***************************************************************************)
\* the entries a tree under walk is made of, besides its root
WalkEntries ==
    {Entry("a.jpg", FALSE, 0), Entry("m.go", FALSE, 0), Entry("LICENSE", FALSE, 0),
     Entry(".h", TRUE, 0), Entry(".h/b.jpg", FALSE, 0),
     Entry("d", TRUE, 0), Entry("d/n.go", FALSE, 0), Entry("d/e.jpg", FALSE, 0),
     Entry("d/s", TRUE, 0), Entry("d/s/f.jpg", FALSE, 0),
     Entry("d/bin", TRUE, 0), Entry("d/bin/x.jpg", FALSE, 0)}

\* the trees: every entry's directory is in the tree
WalkTrees ==
    {S \cup {Entry(".", TRUE, 0)} : S \in
        {T \in SUBSET WalkEntries :
            \A e \in T : Dir(e.path) = "." \/ \E p \in T : p.path = Dir(e.path) /\ p.isDir}}

WalkInit ==
    /\ disk \in {[InitDisk EXCEPT !["ssd"] = t] : t \in WalkTrees}
    /\ now = 0
    /\ cache = <<>>
    /\ listings = <<>>
    /\ db = InitDb
    /\ jobs = <<>>
    /\ indexer = "start"
    /\ failures = <<>>
    /\ mutCount = [n \in KnownNames |-> 0]
    /\ lastRet = NoRet
    /\ ret = NoRet

\* driver.ReadDirRecursive("ssd", showHidden)
WalkCall(showHidden) ==
    /\ ret = NoRet
    /\ ret' = [op |-> "ReadDirRecursive", showHidden |-> showHidden,
               result |-> ReadDirRecursive(disk["ssd"], showHidden)]
    /\ UNCHANGED <<disk, now, cache, listings, db, jobs, indexer, failures, mutCount,
                   lastRet>>

WalkNext == \E showHidden \in BOOLEAN : WalkCall(showHidden)

SpecWalk == WalkInit /\ [][WalkNext]_vars

\* the path has a hidden component
HiddenComponent(p) == \E i \in DOMAIN PathElems(p) : isHiddenFile(PathElems(p)[i])

\* C27: ReadDirRecursive never returns the mount root; with showHidden false
\* it returns no entry with a hidden component in its path; it returns no
\* file that is project junk; and it returns every other entry of the tree:
\* a hidden directory takes its subtree with it, a junk file takes nothing
\* with it.
C27_RecursiveWalkFiltering ==
    ret.op = "ReadDirRecursive"
    => /\ \A f \in ret.result :
             /\ f.path # "."
             /\ ~ret.showHidden => ~HiddenComponent(f.path)
             /\ f.isDir \/ ~isProjectJunk(f.name)
       /\ \A e \in disk["ssd"] :
             (/\ e.path # "."
              /\ ret.showHidden \/ ~HiddenComponent(e.path)
              /\ e.isDir \/ ~isProjectJunk(Base(e.path)))
             => \E f \in ret.result : f.path = e.path /\ f.isDir = e.isDir

C27_Witness ==
    /\ ret.op = "ReadDirRecursive"
    /\ ~ret.showHidden
    /\ disk["ssd"] = WalkEntries \cup {Entry(".", TRUE, 0)}
    /\ {f.path : f \in ret.result} = {"a.jpg", "d", "d/e.jpg", "d/s", "d/s/f.jpg"}

(***************************************************************************)
(* isHiddenFile on names: a call per behaviour.                            *)
(***************************************************************************)
HiddenPrefixes == {"", "ca", "re", "firmware.", ".", "$", "~"}

HiddenSamples ==
    {"", "bin", "BIN", "build", "Build", "vendor", "node_modules", "dist", "target",
     "obj", "Thumbs.db", "a.jpg", "readme", "binary", "RECYCLE", "bin.txt",
     ".git", "desktop.ini"}

HiddenNames == {p \o w : p \in HiddenPrefixes, w \in HiddenSamples}

HiddenInit ==
    /\ ServiceInit
    /\ ret = NoRet

\* isHiddenFile(name)
IsHiddenCall(name) ==
    /\ ret = NoRet
    /\ ret' = [op |-> "isHiddenFile", name |-> name, result |-> isHiddenFile(name)]
    /\ ServiceIdle

HiddenNext == \E name \in HiddenNames : IsHiddenCall(name)

SpecHidden == HiddenInit /\ [][HiddenNext]_vars

\* C29: isHiddenFile(name) is true exactly when the name starts with . $ or ~
\* or is, letter case apart, one of the denylist names as a whole; a name
\* that only ends with a denylist name is not hidden.
C29_HiddenClassification ==
    ret.op = "isHiddenFile"
    => (ret.result
          <=> \/ (Len(ret.name) > 0 /\ SubSeq(ret.name, 1, 1) \in {".", "$", "~"})
              \/ ToLower(ret.name) \in HiddenWords)

====
